---- MODULE Spec2Model ----
(***************************************************************************)
(* un10n testnet bot: the per-wallet progress store (core/progress/        *)
(* progress.js, the lock-file version used by the worker threads) and the  *)
(* worker pool (core/workers/workerManager.js) with the quest services     *)
(* that drive it.                                                          *)
(*                                                                         *)
(* Two specifications share the module:                                    *)
(*   SpecStore  execution units calling the progress store of a wallet,    *)
(*              one file-system call per step;                             *)
(*   SpecPool   one runBatch call or one quest-service run for a wallet,   *)
(*              one event-loop callback per step.                          *)
(***************************************************************************)
EXTENDS Integers, Sequences, FiniteSets, TLC

(***************************************************************************)
(* Bounds of the model.                                                    *)
(***************************************************************************)
MaxCalls == 2
MaxTasks == 3
\* Clock ticks per calendar day.
TicksPerDay == 2

(***************************************************************************)
(* Program constants.                                                      *)
(***************************************************************************)
SchemaVersion == 1
DefaultMaxConcurrentWorkers == 3

\* Wallet indexes, and the execution units (worker threads, async calls of
\* the main thread) that use the store at the same time.
Wallets == {0, 1}
Procs == {1, 2}

Chains == {"UNION", "BABYLON", "STARGAZE", "STRIDE"}
DailyChains == {"UNION", "BABYLON"}
Quests == {"CHAIN_REACTION", "TRIPLE_THREAT", "SIX_CHAINS"}
Sections == {"addresses", "dailyInteractions", "transfers", "crossChain"}

Null == "null"
NoDate == -1
NoChain == "-"
NoQuest == "-"

Min(a, b) == IF a < b THEN a ELSE b

\* new Date().toISOString().split('T')[0]: the calendar day of an instant.
Day(t) == t \div TicksPerDay

VARIABLES
  \* ---- progress store (SpecStore) ----
  file,          \* file[w]: content of data/progress-w.json
  lock,          \* lock[w]: data/progress-w.json.lock exists
  now,           \* the wall clock (the stored files were written at 0)
  pc,            \* pc[p]: the file-system call execution unit p makes next
  ctx,           \* ctx[p]: the store methods p is inside, outermost first
  op,            \* op[p]: the store operation p was asked to perform
  cur,           \* cur[p]: the record p has read (currentData / defaultData)
  err,           \* err[p]: an exception is propagating through a finally
  held,          \* held[p]: waitForLock calls of p that returned true, not yet released
  result,        \* result[p]: how p's last operation ended
  calls,         \* operations started so far
  initFile,      \* the files as they were at the start
  clean,         \* clean[w]: only updateTransferCount calls, none failed or crashed
  okIncrements,  \* okIncrements[w][c]: updateTransferCount(c) calls that returned
  sawBad,        \* sawBad[p]: p's operation found the record missing or unparsable
  \* ---- worker pool (SpecPool) ----
  mode,          \* who drives the pool: runBatch, daily, transfer, crossChain
  tasks,         \* the task list handed to the pool
  maxConcurrent, \* runBatch's maxConcurrent argument
  bpc,           \* the driver's position
  processedCount,\* runBatch's processedCount / the sequential loop's index
  results,       \* runBatch's results array
  promise,       \* promise[t]: the promise runWorker returned for task t
  wstate,        \* wstate[t]: the worker thread of task t
  activeWorkers, \* WorkerManager.activeWorkers (its key set)
  outcome,       \* outcome[t]: what the worker of task t did
  settled,       \* the tasks in the order their promises settled
  questCompleted,\* crossChain[quest].completed of the durable record
  \* ---- transfer planning (SpecTransferPlan) ----
  tpc,           \* where the transfer run of one wallet and chain is
  destChain,     \* the destination chain being planned
  transferCount, \* progressData.transfers[destChain].count (currentCount)
  transfersToPerform, \* what the plan asks for
  \* ---- faucet worker (SpecFaucet) ----
  fpc,           \* where requestFaucet is
  maxAttempts,   \* workerData.maxAttempts (0: unlimited)
  attempts,      \* requestFaucet's attempts
  success,       \* requestFaucet's success
  initialBalance,\* the balance read before the first attempt
  balance,       \* the wallet's balance on the chain
  \* ---- one wallet's Daily run (SpecDaily) ----
  dpc,           \* where DailyInteractionService.run is
  progressData,  \* the record prepareWalletTasks read
  dailyTasks,    \* the tasks prepareWalletTasks returned
  taskState,     \* taskState[i]: the transfer worker of dailyTasks[i]
  doneToday,     \* the chains whose worker reported success
  \* ---- one wallet's Cross-Chain run (SpecCrossChainRun) ----
  qpc,           \* where CrossChainQuestService.run is
  options,       \* run's options: "all", a quest name, or "none"
  crossChainStored, \* crossChain[q].completed of the durable record
  crossChainData,   \* crossChain[q].completed of the record run read
  qi,            \* the index of the for loop over config.quests.CROSS_CHAIN
  attempted,     \* the quests whose transfers this run launched, in order
  launched,      \* the transfers this run launched
  failedQuests,  \* the quests whose attempt in this run returned false
  runs,          \* the runs started so far
  \* ---- source chain selection (SpecSourceChain) ----
  spc,           \* where the selection is
  srcDest,       \* getSuitableSourceChain's destChain
  srcAddresses,  \* progressData.addresses
  sourceChain,   \* what getSuitableSourceChain returned
  \* ---- the backup copy of a record (SpecRecover) ----
  backupFile,    \* wallet -> contents of progress-<wallet>.backup.json
  \* ---- one wallet's tasks run one after another (SpecWorkerRun) ----
  rpc,           \* where the run is
  runKind,       \* daily, transfer or crossChain
  runTasks,      \* the workerData of the tasks, in order
  runIndex,      \* the task at work (1-based)
  runResults,    \* result.success of the tasks done
  runBefore,     \* the record when the task at work started
  runQuest       \* the quest of a cross-chain attempt

storeVars == <<file, lock, now, pc, ctx, op, cur, err, held, result, calls,
               initFile, clean, okIncrements, sawBad>>
poolVars == <<mode, tasks, maxConcurrent, bpc, processedCount, results,
              promise, wstate, activeWorkers, outcome, settled,
              questCompleted>>
planVars == <<tpc, destChain, transferCount, transfersToPerform>>
faucetVars == <<fpc, maxAttempts, attempts, success, initialBalance, balance>>
dailyVars == <<dpc, progressData, dailyTasks, taskState, doneToday>>
questVars == <<qpc, options, crossChainStored, crossChainData, qi, attempted,
               launched, failedQuests, runs>>
sourceVars == <<spc, srcDest, srcAddresses, sourceChain>>
recoverVars == <<backupFile>>
runVars == <<rpc, runKind, runTasks, runIndex, runResults, runBefore,
             runQuest>>
laterVars == <<sourceVars, recoverVars, runVars>>
serviceVars == <<planVars, faucetVars, dailyVars, questVars, laterVars>>
vars == <<storeVars, poolVars, serviceVars>>

(***************************************************************************)
(* Progress records.                                                       *)
(***************************************************************************)
getDefaultProgressData(t) ==
  [ version           |-> SchemaVersion,
    lastUpdated       |-> t,
    present           |-> Sections,
    addresses         |-> [c \in Chains |-> Null],
    dailyInteractions |-> [c \in DailyChains |->
                             [lastInteraction |-> NoDate, count |-> 0]],
    transfers         |-> [c \in DailyChains |-> [count |-> 0]],
    crossChain        |-> [q \in Quests |-> [completed |-> FALSE]] ]

\* A validation that also counts up the version of the record it is given.
validateProgressDataBumpsVersion(data, t) ==
  LET defaultData == getDefaultProgressData(t) IN
  [ version           |-> data.version + 1,
    lastUpdated       |-> t,
    present           |-> Sections,
    addresses         |-> IF "addresses" \in data.present
                          THEN data.addresses ELSE defaultData.addresses,
    dailyInteractions |-> IF "dailyInteractions" \in data.present
                          THEN data.dailyInteractions
                          ELSE defaultData.dailyInteractions,
    transfers         |-> IF "transfers" \in data.present
                          THEN data.transfers ELSE defaultData.transfers,
    crossChain        |-> IF "crossChain" \in data.present
                          THEN data.crossChain ELSE defaultData.crossChain ]

\* { ...defaultData, ...data }, then a default for every section that is
\* absent (present = the sections the stored object has), then the stamp.
validateProgressData(data, t) ==
  LET defaultData == getDefaultProgressData(t) IN
  [ version           |-> data.version,
    lastUpdated       |-> t,
    present           |-> Sections,
    addresses         |-> IF "addresses" \in data.present
                          THEN data.addresses ELSE defaultData.addresses,
    dailyInteractions |-> IF "dailyInteractions" \in data.present
                          THEN data.dailyInteractions
                          ELSE defaultData.dailyInteractions,
    transfers         |-> IF "transfers" \in data.present
                          THEN data.transfers ELSE defaultData.transfers,
    crossChain        |-> IF "crossChain" \in data.present
                          THEN data.crossChain ELSE defaultData.crossChain ]

\* An updateAddress without the spread of data.addresses: the other chains'
\* addresses are dropped.
updateAddressDroppingOthers(data, chain, address) ==
  [data EXCEPT !.addresses = [c \in {chain} |-> address]]

\* The named mutators' update functions (old record -> new record).
updateAddress(data, chain, address) ==
  [data EXCEPT !.addresses =
     [c \in (DOMAIN data.addresses) \cup {chain} |->
        IF c = chain THEN address ELSE data.addresses[c]]]

updateDailyInteraction(data, chain, date) ==
  LET currentCount == IF chain \in DOMAIN data.dailyInteractions
                      THEN data.dailyInteractions[chain].count ELSE 0
  IN [data EXCEPT !.dailyInteractions =
        [c \in (DOMAIN data.dailyInteractions) \cup {chain} |->
           IF c = chain
           THEN [lastInteraction |-> date, count |-> currentCount + 1]
           ELSE data.dailyInteractions[c]]]

updateTransferCount(data, chain, increment) ==
  LET currentCount == IF chain \in DOMAIN data.transfers
                      THEN data.transfers[chain].count ELSE 0
  IN [data EXCEPT !.transfers =
        [c \in (DOMAIN data.transfers) \cup {chain} |->
           IF c = chain THEN [count |-> currentCount + increment]
           ELSE data.transfers[c]]]

updateCrossChainQuest(data, questName, completed) ==
  [data EXCEPT !.crossChain =
     [q \in (DOMAIN data.crossChain) \cup {questName} |->
        IF q = questName THEN [completed |-> completed]
        ELSE data.crossChain[q]]]

Mutators == {"updateAddress", "updateDailyInteraction",
             "updateTransferCount", "updateCrossChainQuest"}

NoOp == [kind |-> "none", wallet |-> 0, chain |-> NoChain,
         quest |-> NoQuest, date |-> NoDate]

\* The store operations an execution unit can be asked to perform.
StoreOps(t) ==
  [kind: {"updateTransferCount", "updateDailyInteraction"}, wallet: Wallets,
   chain: {"UNION"}, quest: {NoQuest}, date: {Day(t)}]
  \cup
  [kind: {"updateAddress"}, wallet: Wallets, chain: {"UNION"},
   quest: {NoQuest}, date: {NoDate}]
  \cup
  [kind: {"updateCrossChainQuest"}, wallet: Wallets, chain: {NoChain},
   quest: {"CHAIN_REACTION"}, date: {NoDate}]
  \cup
  [kind: {"readProgressData"}, wallet: Wallets, chain: {NoChain},
   quest: {NoQuest}, date: {NoDate}]

\* updateFn of the mutator o.
updateFn(o, data) ==
  CASE o.kind = "updateAddress" -> updateAddress(data, o.chain, "addr")
    [] o.kind = "updateDailyInteraction" ->
         updateDailyInteraction(data, o.chain, o.date)
    [] o.kind = "updateTransferCount" -> updateTransferCount(data, o.chain, 1)
    [] o.kind = "updateCrossChainQuest" ->
         updateCrossChainQuest(data, o.quest, TRUE)
    [] OTHER -> data

(***************************************************************************)
(* Files.  kind: missing (ENOENT), corrupt (bytes JSON.parse rejects),     *)
(* empty (opened with O_TRUNC, nothing written yet; JSON.parse rejects it  *)
(* too), data (the JSON text of a record).                                 *)
(***************************************************************************)
NoData == getDefaultProgressData(0)
Missing == [kind |-> "missing", data |-> NoData]
Corrupt == [kind |-> "corrupt", data |-> NoData]
Empty == [kind |-> "empty", data |-> NoData]
Data(d) == [kind |-> "data", data |-> d]

Parses(f) == f.kind = "data"

\* A record as an older run left it: no crossChain section at all, and a
\* transfers section with one UNION transfer counted and no entry for
\* BABYLON.
PartialData ==
  [getDefaultProgressData(0) EXCEPT
     !.present = Sections \ {"crossChain"},
     !.transfers = [c \in {"UNION"} |-> [count |-> 1]]]

Top(p) == ctx[p][Len(ctx[p])]
Pop(s) == SubSeq(s, 1, Len(s) - 1)

\* The part of the state a specification does not use stays as it is here.
PoolUnused ==
  /\ mode = "none"
  /\ tasks = << >>
  /\ maxConcurrent = 0
  /\ bpc = "none"
  /\ processedCount = 0
  /\ results = << >>
  /\ promise = << >>
  /\ wstate = << >>
  /\ activeWorkers = {}
  /\ outcome = << >>
  /\ settled = << >>
  /\ questCompleted = FALSE

PlanUnused ==
  /\ tpc = "none"
  /\ destChain = NoChain
  /\ transferCount = 0
  /\ transfersToPerform = 0

FaucetUnused ==
  /\ fpc = "none"
  /\ maxAttempts = 0
  /\ attempts = 0
  /\ success = FALSE
  /\ initialBalance = 0
  /\ balance = 0

DailyUnused ==
  /\ dpc = "none"
  /\ progressData = << >>
  /\ dailyTasks = << >>
  /\ taskState = << >>
  /\ doneToday = {}

QuestUnused ==
  /\ qpc = "none"
  /\ options = "none"
  /\ crossChainStored = << >>
  /\ crossChainData = << >>
  /\ qi = 0
  /\ attempted = << >>
  /\ launched = 0
  /\ failedQuests = {}
  /\ runs = 0

SourceUnused ==
  /\ spc = "none"
  /\ srcDest = NoChain
  /\ srcAddresses = << >>
  /\ sourceChain = NoChain

RecoverUnused == backupFile = << >>

RunUnused ==
  /\ rpc = "none"
  /\ runKind = "none"
  /\ runTasks = << >>
  /\ runIndex = 0
  /\ runResults = << >>
  /\ runBefore = << >>
  /\ runQuest = NoQuest

LaterUnused ==
  /\ SourceUnused
  /\ RecoverUnused
  /\ RunUnused

ServiceUnused ==
  /\ PlanUnused
  /\ FaucetUnused
  /\ DailyUnused
  /\ QuestUnused
  /\ LaterUnused

StoreUnused ==
  /\ file = << >>
  /\ lock = << >>
  /\ now = 0
  /\ pc = << >>
  /\ ctx = << >>
  /\ op = << >>
  /\ cur = << >>
  /\ err = << >>
  /\ held = << >>
  /\ result = << >>
  /\ calls = 0
  /\ initFile = << >>
  /\ clean = << >>
  /\ okIncrements = << >>
  /\ sawBad = << >>

(***************************************************************************)
(* SpecStore: the progress store.                                          *)
(***************************************************************************)
InitStore ==
  /\ PoolUnused
  /\ ServiceUnused
  /\ file \in [Wallets -> {Missing, Corrupt, Data(getDefaultProgressData(0)),
                            Data(PartialData)}]
  /\ lock = [w \in Wallets |-> FALSE]
  /\ now = TicksPerDay
  /\ pc = [p \in Procs |-> "idle"]
  /\ ctx = [p \in Procs |-> << >>]
  /\ op = [p \in Procs |-> NoOp]
  /\ cur = [p \in Procs |-> NoData]
  /\ err = [p \in Procs |-> FALSE]
  /\ held = [p \in Procs |-> 0]
  /\ result = [p \in Procs |-> "none"]
  /\ calls = 0
  /\ initFile = file
  /\ clean = [w \in Wallets |-> TRUE]
  /\ okIncrements = [w \in Wallets |-> [c \in DailyChains |-> 0]]
  /\ sawBad = [p \in Procs |-> FALSE]

\* An execution unit (a worker thread, or an async call of the main thread)
\* enters a mutator (-> updateProgressData -> waitForLock) or
\* readProgressData.
Enter(p, o) ==
  /\ pc[p] = "idle"
  /\ op' = [op EXCEPT ![p] = o]
  /\ IF o.kind \in Mutators
     THEN /\ ctx' = [ctx EXCEPT ![p] = <<"updateProgressData">>]
          /\ pc' = [pc EXCEPT ![p] = "access"]
     ELSE /\ ctx' = [ctx EXCEPT ![p] = <<"readProgressData">>]
          /\ pc' = [pc EXCEPT ![p] = "readFile"]
  /\ err' = [err EXCEPT ![p] = FALSE]
  /\ sawBad' = [sawBad EXCEPT ![p] = FALSE]
  /\ result' = [result EXCEPT ![p] = "none"]
  /\ clean' = [clean EXCEPT ![o.wallet] = @ /\ o.kind = "updateTransferCount"]
  /\ UNCHANGED <<file, lock, now, cur, held, initFile, okIncrements>>

\* The operations started are counted, up to MaxCalls.
Call(p, o) ==
  /\ calls < MaxCalls
  /\ calls' = calls + 1
  /\ Enter(p, o)

\* What the end of p's operation records; ret is what readProgressData
\* returns.
Finish(p, how, ret) ==
  /\ pc' = [pc EXCEPT ![p] = "idle"]
  /\ ctx' = [ctx EXCEPT ![p] = << >>]
  /\ err' = [err EXCEPT ![p] = FALSE]
  /\ result' = [result EXCEPT ![p] = how]
  /\ cur' = [cur EXCEPT ![p] = IF op[p].kind = "readProgressData" /\ how = "ok"
                               THEN ret ELSE NoData]
  /\ clean' = [clean EXCEPT ![op[p].wallet] = @ /\ how = "ok"]
  /\ okIncrements' =
       IF how = "ok" /\ op[p].kind = "updateTransferCount"
       THEN [okIncrements EXCEPT ![op[p].wallet][op[p].chain] = @ + 1]
       ELSE okIncrements

\* A waitForLock whose lock path does not depend on the wallet: any wallet's
\* lock file makes the caller wait.
WaitForLockAccessAnyWallet(p) ==
  /\ pc[p] = "access"
  /\ pc' = [pc EXCEPT ![p] = IF \E w \in Wallets : lock[w]
                              THEN "sleep" ELSE "create"]
  /\ UNCHANGED <<file, lock, now, ctx, op, cur, err, held, result, calls,
                 initFile, clean, okIncrements, sawBad>>

\* waitForLock, fs.access(lockPath): the lock file exists -> sleep and retry;
\* it does not -> go on to create it.
WaitForLockAccess(p) ==
  /\ pc[p] = "access"
  /\ pc' = [pc EXCEPT ![p] = IF lock[op[p].wallet] THEN "sleep" ELSE "create"]
  /\ UNCHANGED <<file, lock, now, ctx, op, cur, err, held, result, calls,
                 initFile, clean, okIncrements, sawBad>>

\* waitForLock, fs.writeFile(lockPath, ...): creates the lock file, or
\* overwrites the one created since the access; returns true.  The caller
\* goes on: updateProgressData to its read, saveProgressData to its write.
WaitForLockCreate(p) ==
  /\ pc[p] = "create"
  /\ lock' = [lock EXCEPT ![op[p].wallet] = TRUE]
  /\ held' = [held EXCEPT ![p] = @ + 1]
  /\ IF Top(p) = "updateProgressData"
     THEN /\ pc' = [pc EXCEPT ![p] = "readFile"]
          /\ ctx' = [ctx EXCEPT ![p] = Append(@, "readProgressData")]
     ELSE /\ pc' = [pc EXCEPT ![p] = "open"]
          /\ ctx' = ctx
  /\ UNCHANGED <<file, now, op, cur, err, result, calls, initFile, clean,
                 okIncrements, sawBad>>

\* waitForLock after the retry sleep, lockTimeout not yet over: next attempt.
WaitForLockRetry(p) ==
  /\ pc[p] = "sleep"
  /\ pc' = [pc EXCEPT ![p] = "access"]
  /\ UNCHANGED <<file, lock, now, ctx, op, cur, err, held, result, calls,
                 initFile, clean, okIncrements, sawBad>>

\* A caller that treats a false from waitForLock as success and returns
\* normally.
WaitForLockTimeoutSilent(p) ==
  /\ pc[p] = "sleep"
  /\ Finish(p, "ok", cur[p])
  /\ UNCHANGED <<file, lock, now, op, held, calls, initFile, sawBad>>

\* A waitForLock placed inside the try block: after the timeout the finally
\* block runs releaseLock.
WaitForLockTimeoutReleases(p) ==
  /\ pc[p] = "sleep"
  /\ pc' = [pc EXCEPT ![p] = "release"]
  /\ ctx' = [ctx EXCEPT ![p] = <<ctx[p][1]>>]
  /\ err' = [err EXCEPT ![p] = TRUE]
  /\ UNCHANGED <<result, clean, okIncrements, cur>>
  /\ UNCHANGED <<file, lock, now, op, held, calls, initFile, sawBad>>

\* waitForLock after the retry sleep, lockTimeout over: returns false and the
\* caller throws 'Could not acquire lock ...', before its try block.  The
\* error leaves saveProgressData and the catch block of readProgressData that
\* called it; an enclosing updateProgressData runs its finally (releaseLock).
WaitForLockTimeout(p) ==
  /\ pc[p] = "sleep"
  /\ IF ctx[p][1] = "updateProgressData" /\ Len(ctx[p]) > 1
     THEN /\ pc' = [pc EXCEPT ![p] = "release"]
          /\ ctx' = [ctx EXCEPT ![p] = <<"updateProgressData">>]
          /\ err' = [err EXCEPT ![p] = TRUE]
          /\ UNCHANGED <<result, clean, okIncrements, cur>>
     ELSE Finish(p, "error", NoData)
  /\ UNCHANGED <<file, lock, now, op, held, calls, initFile, sawBad>>

\* readProgressData, fs.readFile + JSON.parse: a record is validated and
\* returned; ENOENT or a SyntaxError leads to saveProgressData(defaultData).
ReadFile(p) ==
  /\ pc[p] = "readFile"
  /\ LET w == op[p].wallet
         caller == Pop(ctx[p])
     IN IF Parses(file[w])
        THEN /\ sawBad' = sawBad
             /\ IF caller = << >>
                THEN Finish(p, "ok", validateProgressData(file[w].data, now))
                ELSE /\ cur' = [cur EXCEPT ![p] =
                                  validateProgressData(file[w].data, now)]
                     /\ ctx' = [ctx EXCEPT ![p] = caller]
                     /\ pc' = [pc EXCEPT ![p] = "open"]
                     /\ UNCHANGED <<err, result, clean, okIncrements>>
        ELSE /\ cur' = [cur EXCEPT ![p] = getDefaultProgressData(now)]
             /\ sawBad' = [sawBad EXCEPT ![p] = TRUE]
             /\ ctx' = [ctx EXCEPT ![p] = Append(@, "saveProgressData")]
             /\ pc' = [pc EXCEPT ![p] = "access"]
             /\ UNCHANGED <<err, result, clean, okIncrements>>
  /\ UNCHANGED <<file, lock, now, op, held, calls, initFile>>

\* fs.writeFile(filePath, ...), first half: the file is opened with O_TRUNC.
WriteFileOpen(p) ==
  /\ pc[p] = "open"
  /\ file' = [file EXCEPT ![op[p].wallet] = Empty]
  /\ pc' = [pc EXCEPT ![p] = "write"]
  /\ UNCHANGED <<lock, now, ctx, op, cur, err, held, result, calls, initFile,
                 clean, okIncrements, sawBad>>

\* The record fs.writeFile writes: saveProgressData writes the validated
\* argument, updateProgressData the validated updateFn(currentData).
Written(p, t) ==
  IF Top(p) = "updateProgressData"
  THEN validateProgressData(updateFn(op[p], cur[p]), t)
  ELSE validateProgressData(cur[p], t)

\* fs.writeFile(filePath, ...), second half: the JSON text is written.
WriteFileData(p) ==
  /\ pc[p] = "write"
  /\ file' = [file EXCEPT ![op[p].wallet] = Data(Written(p, now))]
  /\ pc' = [pc EXCEPT ![p] = "release"]
  /\ UNCHANGED <<lock, now, ctx, op, cur, err, held, result, calls, initFile,
                 clean, okIncrements, sawBad>>

\* finally { releaseLock() }: fs.unlink of the lock file (a missing lock file
\* is only logged), then the method returns or rethrows.  saveProgressData
\* returns into readProgressData, which returns defaultData to its caller.
ReleaseLock(p) ==
  /\ pc[p] = "release"
  /\ lock' = [lock EXCEPT ![op[p].wallet] = FALSE]
  /\ held' = [held EXCEPT ![p] = @ - 1]
  /\ IF Top(p) = "saveProgressData" /\ Len(ctx[p]) = 3
     THEN /\ ctx' = [ctx EXCEPT ![p] = <<"updateProgressData">>]
          /\ pc' = [pc EXCEPT ![p] = "open"]
          /\ UNCHANGED <<err, result, clean, okIncrements, cur>>
     ELSE Finish(p, IF err[p] THEN "error" ELSE "ok", cur[p])
  /\ UNCHANGED <<file, now, op, calls, initFile, sawBad>>

\* The execution unit dies in the middle of an operation (worker terminated,
\* process killed): it takes no further step and runs no finally block.
\* One such failure per run is modelled.
Crash(p) ==
  /\ pc[p] \notin {"idle", "crashed"}
  /\ \A q \in Procs : pc[q] # "crashed"
  /\ pc' = [pc EXCEPT ![p] = "crashed"]
  /\ result' = [result EXCEPT ![p] = "crashed"]
  /\ ctx' = [ctx EXCEPT ![p] = << >>]
  /\ cur' = [cur EXCEPT ![p] = NoData]
  /\ err' = [err EXCEPT ![p] = FALSE]
  /\ clean' = [clean EXCEPT ![op[p].wallet] = FALSE]
  /\ UNCHANGED <<file, lock, now, op, held, calls, initFile, okIncrements,
                 sawBad>>

NextStore ==
  \/ \E p \in Procs : \E o \in StoreOps(now) : Call(p, o) /\ UNCHANGED <<poolVars, serviceVars>>
  \/ \E p \in Procs : WaitForLockAccess(p) /\ UNCHANGED <<poolVars, serviceVars>>
  \/ \E p \in Procs : WaitForLockCreate(p) /\ UNCHANGED <<poolVars, serviceVars>>
  \/ \E p \in Procs : WaitForLockRetry(p) /\ UNCHANGED <<poolVars, serviceVars>>
  \/ \E p \in Procs : WaitForLockTimeout(p) /\ UNCHANGED <<poolVars, serviceVars>>
  \/ \E p \in Procs : ReadFile(p) /\ UNCHANGED <<poolVars, serviceVars>>
  \/ \E p \in Procs : WriteFileOpen(p) /\ UNCHANGED <<poolVars, serviceVars>>
  \/ \E p \in Procs : WriteFileData(p) /\ UNCHANGED <<poolVars, serviceVars>>
  \/ \E p \in Procs : ReleaseLock(p) /\ UNCHANGED <<poolVars, serviceVars>>
  \/ \E p \in Procs : Crash(p) /\ UNCHANGED <<poolVars, serviceVars>>

(***************************************************************************)
(* Worker pool: promises, results, worker events.                          *)
(***************************************************************************)
TaskIds == 1..(MaxTasks + 1)

\* A result object.  workerId tags it with the task whose promise carries it
\* (0: none); error is the message of a failed result.
NoResult == [success |-> FALSE, workerId |-> 0, error |-> ""]
Success(t) == [success |-> TRUE, workerId |-> t, error |-> ""]
Failure(t, e) == [success |-> FALSE, workerId |-> t, error |-> e]

NoPromise == [state |-> "none", value |-> NoResult]
Pending == [state |-> "pending", value |-> NoResult]
\* resolve / reject of a promise: the first one settles it, later ones do
\* nothing.
Resolve(pr, v) ==
  IF pr.state = "pending" THEN [state |-> "resolved", value |-> v] ELSE pr
Reject(pr, v) ==
  IF pr.state = "pending" THEN [state |-> "rejected", value |-> v] ELSE pr
Settled(pr) == pr.state \in {"resolved", "rejected"}

\* The message a worker posts: {success: true, result} or
\* {success: false, error}.
Message(t, ok) ==
  IF ok THEN [success |-> TRUE, result |-> Success(t), error |-> ""]
  ELSE [success |-> FALSE, result |-> NoResult, error |-> "failed"]

\* worker.on('message'): resolve(message.result || {success: true}) or
\* resolve({success: false, error: message.error}).
OnMessage(pr, t, message) ==
  IF message.success
  THEN Resolve(pr, IF message.result # NoResult THEN message.result
                   ELSE Success(t))
  ELSE Resolve(pr, Failure(t, message.error))

OnErrorRejects(pr, t) == Reject(pr, Failure(t, "error"))
\* worker.on('error'): resolve({success: false, error: error.message}).
OnError(pr, t) == Resolve(pr, Failure(t, "error"))

OnExitRejects(pr, t, code) ==
  IF code # 0 THEN Reject(pr, Failure(t, "Exited with code")) ELSE pr
\* worker.on('exit'): a non-zero code resolves with a failed result; code 0
\* resolves nothing.
OnExit(pr, t, code) ==
  IF code # 0 THEN Resolve(pr, Failure(t, "Exited with code")) ELSE pr

\* catch around new Worker(...): resolve({success: false, error}).
OnCreateError(pr, t) == Resolve(pr, Failure(t, "create"))

N == Len(tasks)
Running == {t \in 1..N : wstate[t] = "running"}

\* runWorker(task t): the promise executor runs at once.  new Worker either
\* throws (created = FALSE) or starts the thread, which is then entered in
\* activeWorkers.
RunWorkerPromise(t, created) ==
  IF created THEN Pending ELSE OnCreateError(Pending, t)

\* State after runWorker has been called for the tasks of `chunk`
\* (consecutive task indexes), the workers of `failing` failing to start.
LaunchAll(chunk, failing) ==
  /\ promise' = [t \in TaskIds |->
                   IF t \in chunk THEN RunWorkerPromise(t, t \notin failing)
                   ELSE promise[t]]
  /\ wstate' = [t \in TaskIds |->
                  IF t \in chunk \ failing THEN "running" ELSE wstate[t]]
  /\ activeWorkers' = activeWorkers \cup
                        {tasks[t].workerId : t \in chunk \ failing}
  /\ outcome' = [t \in TaskIds |->
                   IF t \in failing THEN "create" ELSE outcome[t]]
  /\ settled' = settled \o
       SelectSeq([i \in 1..N |-> i], LAMBDA t : t \in failing)

\* ---- what a worker thread does (the events the main thread receives) ----

\* The worker posts its one message; the message handler deletes it from
\* activeWorkers and resolves.  The thread itself ends later (exit, code 0).
WorkerMessage(t, ok) ==
  /\ t \in 1..N /\ wstate[t] = "running"
  /\ wstate' = [wstate EXCEPT ![t] = "posted"]
  /\ outcome' = [outcome EXCEPT ![t] = IF ok THEN "success" ELSE "failure"]
  /\ activeWorkers' = activeWorkers \ {tasks[t].workerId}
  /\ promise' = [promise EXCEPT ![t] = OnMessage(@, t, Message(t, ok))]
  /\ settled' = IF Settled(promise[t]) THEN settled ELSE Append(settled, t)
  /\ UNCHANGED <<questCompleted, mode, tasks, maxConcurrent,
                 bpc, processedCount, results>>

\* An uncaught exception in the worker: the error handler runs; the thread
\* ends later with exit code 1.
WorkerError(t) ==
  /\ t \in 1..N /\ wstate[t] = "running"
  /\ wstate' = [wstate EXCEPT ![t] = "errored"]
  /\ outcome' = [outcome EXCEPT ![t] = "error"]
  /\ activeWorkers' = activeWorkers \ {tasks[t].workerId}
  /\ promise' = [promise EXCEPT ![t] = OnError(@, t)]
  /\ settled' = IF Settled(promise'[t]) /\ ~Settled(promise[t])
                THEN Append(settled, t) ELSE settled
  /\ UNCHANGED <<questCompleted, mode, tasks, maxConcurrent,
                 bpc, processedCount, results>>

\* An exit handler that forgets the worker only inside its if (code !== 0).
afterExitOnFailure(active, workerId, code) ==
  IF code # 0 THEN active \ {workerId} ELSE active
\* worker.on('exit'): this.activeWorkers.delete(workerData.workerId), whatever
\* the code.
afterExit(active, workerId, code) == active \ {workerId}

\* The thread ends.  After its message: code 0; after an error: code 1; with
\* neither (process.exit, terminate, or the script just ends): any code.
WorkerExit(t, code) ==
  /\ t \in 1..N /\ wstate[t] \in {"running", "posted", "errored"}
  /\ wstate[t] = "posted" => code = 0
  /\ wstate[t] = "errored" => code = 1
  /\ wstate' = [wstate EXCEPT ![t] = "exited"]
  /\ outcome' = [outcome EXCEPT ![t] =
                   IF wstate[t] = "running"
                   THEN (IF code = 0 THEN "silent" ELSE "exit") ELSE @]
  /\ activeWorkers' = afterExit(activeWorkers, tasks[t].workerId, code)
  /\ promise' = [promise EXCEPT ![t] = OnExit(@, t, code)]
  /\ settled' = IF Settled(promise'[t]) /\ ~Settled(promise[t])
                THEN Append(settled, t) ELSE settled
  /\ UNCHANGED <<questCompleted, mode, tasks, maxConcurrent,
                 bpc, processedCount, results>>

(***************************************************************************)
(* WorkerManager.runBatch(tasks, maxConcurrent).                           *)
(***************************************************************************)
batchSizeUnbounded == N
batchSize == Min(maxConcurrent, N)

LaunchAllRemaining(processed) == N - processed
currentBatchSize(processed) == Min(batchSize, N - processed)

\* The task indexes of the chunk that starts after `processed` tasks.
Chunk(processed) ==
  {processed + i : i \in 1..currentBatchSize(processed)}

PromiseAllInSettleOrder(first, size) ==
  LET inChunk == SelectSeq(settled, LAMBDA t : t >= first /\ t < first + size)
  IN [i \in 1..size |-> promise[inChunk[i]].value]
\* await Promise.all(batch): the values in the order of the batch array.
PromiseAll(first, size) ==
  [i \in 1..size |-> promise[first + i - 1].value]

BatchModes == {"runBatch", "daily"}
SequentialModes == {"transfer", "crossChain"}

\* while (processedCount < tasks.length): the for loop calls runWorker for
\* every task of the chunk, synchronously; then the await.
RunBatchLaunch ==
  /\ mode \in BatchModes /\ bpc = "loop"
  /\ processedCount < N
  /\ \E failing \in SUBSET Chunk(processedCount) :
       LaunchAll(Chunk(processedCount), failing)
  /\ bpc' = "await"
  /\ UNCHANGED <<questCompleted, mode, tasks, maxConcurrent,
                 processedCount, results>>

\* A runBatch that starts the next chunk without a pause.
afterChunkNoPause(processed) == "loop"
\* if (processedCount < tasks.length) await sleep(2000): where runBatch goes
\* once `processed` tasks are done.
afterChunk(processed) == IF processed < N THEN "sleep" ELSE "loop"

\* Promise.all(batch) settles: it rejects as soon as one promise rejects
\* (runBatch then throws), and else resolves once all have resolved;
\* results.push(...batchResults); processedCount += currentBatchSize.
RunBatchCollect ==
  /\ mode \in BatchModes /\ bpc = "await"
  /\ LET chunk == Chunk(processedCount)
         size == currentBatchSize(processedCount)
     IN \/ /\ \E t \in chunk : promise[t].state = "rejected"
           /\ bpc' = "threw"
           /\ UNCHANGED <<processedCount, results>>
        \/ /\ \A t \in chunk : promise[t].state = "resolved"
           /\ results' = results \o PromiseAll(processedCount + 1, size)
           /\ processedCount' = processedCount + size
           /\ bpc' = afterChunk(processedCount')
  /\ UNCHANGED <<questCompleted, mode, tasks, maxConcurrent,
                 promise, wstate, activeWorkers,
                 outcome, settled>>

\* await sleep(2000) between two chunks.
RunBatchCooldown ==
  /\ mode \in BatchModes /\ bpc = "sleep"
  /\ bpc' = "loop"
  /\ UNCHANGED <<questCompleted, mode, tasks, maxConcurrent,
                 processedCount, results, promise,
                 wstate, activeWorkers, outcome, settled>>

\* The while condition fails: return results.
RunBatchReturn ==
  /\ mode \in BatchModes /\ bpc = "loop"
  /\ ~(processedCount < N)
  /\ bpc' = "done"
  /\ UNCHANGED <<questCompleted, mode, tasks, maxConcurrent,
                 processedCount, results, promise,
                 wstate, activeWorkers, outcome, settled>>

(***************************************************************************)
(* TransferQuestService.run and CrossChainQuestService.                    *)
(* executeCrossChainQuest: for (task of tasks) await runWorker(task).      *)
(***************************************************************************)
RunWorkerNext ==
  /\ mode \in SequentialModes /\ bpc = "loop"
  /\ processedCount < N
  /\ \E failing \in SUBSET {processedCount + 1} :
       LaunchAll({processedCount + 1}, failing)
  /\ bpc' = "await"
  /\ UNCHANGED <<questCompleted, mode, tasks, maxConcurrent,
                 processedCount, results>>

\* The awaited runWorker promise settles.  A rejection is caught: by the
\* try/catch in the loop of TransferQuestService.run (failCount++), by the
\* try/catch around the loop of executeCrossChainQuest (return false).
RunWorkerResume ==
  /\ mode \in SequentialModes /\ bpc = "await"
  /\ LET t == processedCount + 1
     IN /\ Settled(promise[t])
        /\ results' = Append(results, promise[t].value)
        /\ processedCount' = t
        /\ bpc' = IF promise[t].state = "rejected" /\ mode = "crossChain"
                  THEN "done" ELSE "loop"
  /\ UNCHANGED <<questCompleted, mode, tasks, maxConcurrent,
                 promise, wstate, activeWorkers,
                 outcome, settled>>

\* A completion test that is satisfied by one successful step.
anySuccess == \E i \in 1..Len(results) : results[i].success
\* let allSuccess = true; ... if (!result.success) allSuccess = false.
allSuccess == \A i \in 1..Len(results) : results[i].success

\* The loop is over.  TransferQuestService.run returns;
\* executeCrossChainQuest goes on to updateCrossChainQuest if (allSuccess),
\* and else returns false.
RunReturn ==
  /\ mode \in SequentialModes /\ bpc = "loop"
  /\ ~(processedCount < N)
  /\ bpc' = IF mode = "crossChain" /\ allSuccess THEN "update" ELSE "done"
  /\ UNCHANGED <<questCompleted, mode, tasks, maxConcurrent,
                 processedCount, results, promise,
                 wstate, activeWorkers, outcome, settled>>

\* executeCrossChainQuest: await progressService.updateCrossChainQuest(
\* questName, true).  It persists completed = true and the method returns
\* allSuccess (ok), or it throws (a store error) and the catch block
\* returns false (~ok).
MarkQuestCompleted(ok) ==
  /\ mode = "crossChain" /\ bpc = "update"
  /\ questCompleted' = ok
  /\ bpc' = IF ok THEN "done" ELSE "failed"
  /\ UNCHANGED <<mode, tasks, maxConcurrent, processedCount, results, promise,
                 wstate, activeWorkers, outcome, settled>>

(***************************************************************************)
(* SpecPool.                                                               *)
(***************************************************************************)
\* A task list of n tasks; sameWallet: all for wallet 0 (one wallet's plan),
\* else task i for wallet i - 1 (one task per wallet).
Tasks(n, sameWallet) ==
  [i \in 1..n |-> [workerId |-> i,
                   walletIndex |-> IF sameWallet THEN 0 ELSE i - 1]]

\* DailyInteractionService.run hands runBatch at most the two tasks of
\* prepareWalletTasks (UNION, BABYLON) and no maxConcurrent, so the default
\* this.maxConcurrentWorkers applies.
InitPool ==
  /\ StoreUnused
  /\ ServiceUnused
  /\ mode \in {"runBatch", "daily", "transfer", "crossChain"}
  /\ \E n \in 0..MaxTasks :
       /\ mode = "daily" => n <= Cardinality(DailyChains)
       /\ mode = "crossChain" => n >= 1
       /\ tasks = Tasks(n, mode # "runBatch")
  /\ maxConcurrent \in 1..MaxTasks
  /\ mode # "runBatch" => maxConcurrent = DefaultMaxConcurrentWorkers
  /\ bpc = "loop"
  /\ processedCount = 0
  /\ results = << >>
  /\ promise = [t \in TaskIds |-> NoPromise]
  /\ wstate = [t \in TaskIds |-> "none"]
  /\ activeWorkers = {}
  /\ outcome = [t \in TaskIds |-> "none"]
  /\ settled = << >>
  /\ questCompleted = FALSE

NextPool ==
  \/ RunBatchLaunch /\ UNCHANGED <<storeVars, serviceVars>>
  \/ RunBatchCollect /\ UNCHANGED <<storeVars, serviceVars>>
  \/ RunBatchCooldown /\ UNCHANGED <<storeVars, serviceVars>>
  \/ RunBatchReturn /\ UNCHANGED <<storeVars, serviceVars>>
  \/ RunWorkerNext /\ UNCHANGED <<storeVars, serviceVars>>
  \/ RunWorkerResume /\ UNCHANGED <<storeVars, serviceVars>>
  \/ RunReturn /\ UNCHANGED <<storeVars, serviceVars>>
  \/ \E ok \in BOOLEAN : MarkQuestCompleted(ok) /\ UNCHANGED <<storeVars, serviceVars>>
  \/ \E t \in TaskIds : \E ok \in BOOLEAN :
       WorkerMessage(t, ok) /\ UNCHANGED <<storeVars, serviceVars>>
  \/ \E t \in TaskIds : WorkerError(t) /\ UNCHANGED <<storeVars, serviceVars>>
  \/ \E t \in TaskIds : \E code \in {0, 1} :
       WorkerExit(t, code) /\ UNCHANGED <<storeVars, serviceVars>>

SpecStore == InitStore /\ [][NextStore]_vars
SpecPool == InitPool /\ [][NextPool]_vars
Spec == SpecStore

(***************************************************************************)
(* Claims about the progress store (SpecStore).                            *)
(***************************************************************************)
AllIdle == \A p \in Procs : pc[p] = "idle"

\* C1: when only updateTransferCount calls were made for a wallet whose
\* record was valid, and every one of them has returned without error, the
\* stored transfers.UNION.count is the starting count plus the number of
\* calls: no update is lost.
NoLostUpdate ==
  \A w \in Wallets :
    (clean[w] /\ Parses(initFile[w]) /\ AllIdle)
      => /\ Parses(file[w])
         /\ file[w].data.transfers["UNION"].count =
              initFile[w].data.transfers["UNION"].count
                + okIncrements[w]["UNION"]

\* The execution units that are between a waitForLock that returned true for
\* wallet w and their releaseLock.
Holders(w) ==
  {p \in Procs : held[p] > 0 /\ pc[p] # "crashed" /\ op[p].wallet = w}

\* C2: at most one execution unit holds a wallet's update lock at a time.
MutualExclusion == \A w \in Wallets : Cardinality(Holders(w)) <= 1

\* C9: an execution unit that dies inside fs.writeFile of the record (after
\* the open, before the data is written) never leaves the record empty or
\* truncated.
CrashLeavesRecordIntact ==
  [][\A p \in Procs :
       (pc[p] = "write" /\ pc'[p] = "crashed")
         => file'[op[p].wallet].kind # "empty"]_vars

\* C10: a named mutator that found the wallet's record missing or
\* unparsable completes without error.
MutatorSurvivesBadRecord ==
  \A p \in Procs :
    (pc[p] = "idle" /\ op[p].kind \in Mutators /\ sawBad[p])
      => result[p] = "ok"

(***************************************************************************)
(* Claims about the worker pool (SpecPool).                                *)
(***************************************************************************)
FailureOutcomes == {"failure", "error", "exit", "create"}

\* C3: in a quest-service run for one wallet no two tasks of the same
\* wallet are active at the same time.
OneTaskPerWalletAtATime ==
  mode \in {"daily", "transfer", "crossChain"}
    => \A t1, t2 \in Running :
         t1 # t2 => tasks[t1].walletIndex # tasks[t2].walletIndex

\* C4: runBatch returns exactly one result per input task, result i being
\* the outcome of task i, whatever order the workers finished in.
ResultsInInputOrder ==
  (mode \in BatchModes /\ bpc = "done")
    => /\ Len(results) = N
       /\ \A i \in 1..N : /\ results[i] = promise[i].value
                          /\ results[i].workerId = tasks[i].workerId

\* C4 witness: a finished batch whose workers finished out of input order.
ResultsInInputOrderWitness ==
  /\ mode = "runBatch" /\ bpc = "done" /\ N >= 2
  /\ Len(settled) = N
  /\ \E i, j \in 1..N : i < j /\ settled[i] > settled[j]

\* C5: during runBatch(tasks, maxConcurrent) with maxConcurrent >= 1, never
\* more than maxConcurrent of its workers are active (launched, outcome not
\* yet delivered), and activeWorkers never holds more than that.
AtMostMaxConcurrentActive ==
  (mode \in BatchModes /\ maxConcurrent >= 1)
    => /\ Cardinality(Running) <= maxConcurrent
       /\ Cardinality(activeWorkers) <= maxConcurrent

\* C5 witness: more tasks than the limit, and the limit is reached.
AtMostMaxConcurrentActiveWitness ==
  /\ mode = "runBatch" /\ maxConcurrent = 2 /\ N > maxConcurrent
  /\ Cardinality(Running) = maxConcurrent

\* C6: runWorker's promise is settled once the worker thread has ended (no
\* event can arrive after the exit): the call never stays pending forever.
ExitedWorkerIsSettled ==
  \A t \in 1..N : wstate[t] = "exited" => Settled(promise[t])

\* C7: runWorker never rejects; a failure message, an error event, a
\* non-zero exit and a failure to create the worker each resolve it with a
\* result whose success is false and that carries an error message.
RunWorkerNeverRejects ==
  \A t \in 1..N :
    /\ promise[t].state # "rejected"
    /\ outcome[t] \in FailureOutcomes
         => /\ promise[t].state = "resolved"
            /\ ~promise[t].value.success
            /\ promise[t].value.error # ""

\* C7 witness: an error event, a non-zero exit and a failed creation, each
\* resolved.
RunWorkerNeverRejectsWitness ==
  /\ \E t \in 1..N : outcome[t] = "error" /\ promise[t].state = "resolved"
  /\ \E t \in 1..N : outcome[t] = "exit" /\ promise[t].state = "resolved"
  /\ \E t \in 1..N : outcome[t] = "create" /\ promise[t].state = "resolved"

\* C8: in runBatch a failing worker yields a failed result in its own slot
\* and nothing else: runBatch does not throw, every task's result reports
\* success exactly when that task's own worker succeeded, and the batch
\* still ends with a result for every task of every chunk.
FailureIsIsolated ==
  mode \in BatchModes
    => /\ bpc # "threw"
       /\ \A t \in 1..N :
            Settled(promise[t])
              => promise[t].value.success = (outcome[t] = "success")
       /\ bpc = "done"
            => /\ Len(results) = N
               /\ \A i \in 1..N :
                    results[i].success = (outcome[i] = "success")

\* C8 witness: the first task of the first chunk failed by a non-zero exit,
\* its sibling and the task of the next chunk succeeded, the batch is done.
FailureIsIsolatedWitness ==
  /\ mode = "runBatch" /\ bpc = "done" /\ maxConcurrent = 2 /\ N = 3
  /\ outcome[1] = "exit" /\ outcome[2] = "success" /\ outcome[3] = "success"
  /\ ~results[1].success /\ results[2].success /\ results[3].success

(***************************************************************************)
(* Further claims about the progress store (SpecStore).                    *)
(***************************************************************************)
\* C11: a direct readProgressData that found the wallet's record missing or
\* unparsable does not throw: it returns normally.
ReadSurvivesBadRecord ==
  \A p \in Procs :
    (pc[p] = "idle" /\ op[p].kind = "readProgressData" /\ sawBad[p])
      => result[p] = "ok"

\* A record with an entry for every chain and quest name of the default
\* record, in each of the four sub-mappings.
Complete(d) ==
  /\ DOMAIN d.addresses = Chains
  /\ DOMAIN d.dailyInteractions = DailyChains
  /\ DOMAIN d.transfers = DailyChains
  /\ DOMAIN d.crossChain = Quests

\* C12: every record readProgressData returns has an entry for every
\* configured chain or quest name in each of its four sub-mappings.
ReturnedRecordIsComplete ==
  \A p \in Procs :
    (pc[p] = "idle" /\ op[p].kind = "readProgressData" /\ result[p] = "ok")
      => Complete(cur[p])

\* C13: no dailyInteractions[chain].count and no transfers[chain].count of
\* the durable record ever decreases; in particular a readable record never
\* shows a count below the one the wallet's record started with.
CountsNeverDecrease ==
  \A w \in Wallets :
    (Parses(initFile[w]) /\ Parses(file[w]))
      => /\ \A c \in DOMAIN initFile[w].data.transfers :
              /\ c \in DOMAIN file[w].data.transfers
              /\ file[w].data.transfers[c].count
                   >= initFile[w].data.transfers[c].count
         /\ \A c \in DOMAIN initFile[w].data.dailyInteractions :
              /\ c \in DOMAIN file[w].data.dailyInteractions
              /\ file[w].data.dailyInteractions[c].count
                   >= initFile[w].data.dailyInteractions[c].count

\* The step in which p's waitForLock gives up: p leaves its retry sleep for
\* anything but the next attempt.
TimedOut(p) ==
  pc[p] = "sleep" /\ pc'[p] \notin {"sleep", "access", "crashed"}

\* C14: when updateProgressData or saveProgressData cannot acquire the lock
\* within the lock timeout, the step leaves every durable record as it was
\* and the call fails: it ends with an error at once, or the error is
\* propagating through the caller's finally and that caller ends with it.
LockTimeoutIsReported ==
  [][\A p \in Procs :
       /\ TimedOut(p)
            => /\ file' = file
               /\ IF pc'[p] = "idle" THEN result'[p] = "error" ELSE err'[p]
       /\ (err[p] /\ pc'[p] = "idle") => result'[p] = "error"]_vars

\* C14 witness: a named mutator that found a readable record (so made no
\* nested save) has ended with the lock-timeout error.
LockTimeoutIsReportedWitness ==
  \E p \in Procs :
    /\ pc[p] = "idle" /\ op[p].kind \in Mutators /\ ~sawBad[p]
    /\ result[p] = "error" /\ held[p] = 0

\* What operation o does to a wallet whose record is f when nothing else
\* touches that wallet: how it ends and the record it leaves.  A mutator on
\* an unreadable record ends with the lock-timeout error of its nested save
\* and leaves the record alone; a read of one saves the default record.
Alone(o, f, t) ==
  IF o.kind \in Mutators
  THEN IF Parses(f)
       THEN [result |-> "ok",
             file |-> Data(validateProgressData(
                             updateFn(o, validateProgressData(f.data, t)), t))]
       ELSE [result |-> "error", file |-> f]
  ELSE IF Parses(f)
       THEN [result |-> "ok", file |-> f]
       ELSE [result |-> "ok",
             file |-> Data(validateProgressData(getDefaultProgressData(t), t))]

\* Every execution unit has started exactly one operation, no two of them on
\* the same wallet, and none has died.
OnDistinctWallets ==
  /\ calls = Cardinality(Procs)
  /\ \A p \in Procs : op[p].kind # "none" /\ pc[p] # "crashed"
  /\ \A p, q \in Procs : p # q => op[p].wallet # op[q].wallet

\* C15: operations on different wallets use disjoint locks and records: a
\* unit waits only for a lock of its own wallet that it holds itself (never
\* for the other wallet's), a wallet's lock file exists only while the unit
\* working on that wallet holds it, and each operation ends exactly as it
\* would with nothing else running, under every interleaving.
CrossWalletIndependence ==
  OnDistinctWallets
    => \A p \in Procs :
         LET w == op[p].wallet
             alone == Alone(op[p], initFile[w], now)
         IN /\ pc[p] = "sleep" => held[p] > 0
            /\ lock[w] => held[p] > 0
            /\ file[w] \in {initFile[w], Empty, alone.file}
            /\ pc[p] = "idle"
                 => /\ result[p] = alone.result
                    /\ file[w] = alone.file

\* C15 witness: two updates, one per wallet, both on readable records, are
\* both done and each wallet's count went up by one.
CrossWalletIndependenceWitness ==
  /\ OnDistinctWallets
  /\ \A p \in Procs :
       /\ op[p].kind = "updateTransferCount" /\ pc[p] = "idle"
       /\ result[p] = "ok" /\ Parses(initFile[op[p].wallet])
       /\ file[op[p].wallet].data.transfers["UNION"].count =
            initFile[op[p].wallet].data.transfers["UNION"].count + 1

\* Equal in every field except possibly lastUpdated.
SameButStamp(a, b) == [a EXCEPT !.lastUpdated = 0] = [b EXCEPT !.lastUpdated = 0]

\* The only operations of the run are one readProgressData per execution
\* unit, all of the same wallet, and all have returned a record.
OnlyReadsReturned ==
  /\ calls = Cardinality(Procs)
  /\ \A p \in Procs : /\ op[p].kind = "readProgressData"
                      /\ pc[p] = "idle" /\ result[p] = "ok"
  /\ \A p, q \in Procs : op[p].wallet = op[q].wallet

\* C16: two readProgressData calls for a wallet with no other write between
\* them return records equal in every field except possibly lastUpdated,
\* whether the record was valid, partial, missing or unparsable at first.
ReadIsIdempotent ==
  OnlyReadsReturned => \A p, q \in Procs : SameButStamp(cur[p], cur[q])

\* C16 witness: both reads returned and the record was missing or
\* unparsable before the first of them.
ReadIsIdempotentWitness ==
  /\ OnlyReadsReturned
  /\ \A p \in Procs : ~Parses(initFile[op[p].wallet])
  /\ \E p \in Procs : sawBad[p]
  /\ \E p \in Procs : ~sawBad[p]

(***************************************************************************)
(* SpecRunForAll: runForAll(privateKeys, ..., maxThreads) of the quest     *)
(* services.  tasks are the walletTasks, maxConcurrent is maxThreads,      *)
(* promise[t] is the promise of this.run(...) for wallet task t, and       *)
(* wstate[t] is where that run is: planning (readProgressData,             *)
(* prepareWalletTasks), working (its workers), returned, threw.            *)
(***************************************************************************)
RunForAllModes == {"dailyAll", "transferAll", "crossChainAll"}

\* The wallets whose run has started and not ended.
Processing == {t \in 1..N : wstate[t] \in {"planning", "working"}}

\* while (processedCount < walletTasks.length): batch.push(this.run(...)) for
\* every wallet of the chunk; each run starts at once and goes on to its
\* first await.
RunForAllLaunch ==
  /\ mode \in RunForAllModes /\ bpc = "loop"
  /\ processedCount < N
  /\ promise' = [t \in TaskIds |->
                   IF t \in Chunk(processedCount) THEN Pending ELSE promise[t]]
  /\ wstate' = [t \in TaskIds |->
                  IF t \in Chunk(processedCount) THEN "planning" ELSE wstate[t]]
  /\ bpc' = "await"
  /\ UNCHANGED <<questCompleted, mode, tasks, maxConcurrent,
                 processedCount, results,
                 activeWorkers, outcome, settled>>

\* The tasks of a plan in the order prepareWalletTasks pushes them, and the
\* workers a wallet's run starts first for them, named
\* by wallet task and chain.  DailyInteractionService.run hands all its
\* tasks (at most one per daily chain) to workerManager.runBatch(tasks) with
\* no maxConcurrent, so the chunk is cut at the manager's own limit; the
\* other services await runWorker for one task at a time.
PlannedTasks(plan) == SelectSeq(<<"UNION", "BABYLON">>, LAMBDA c : c \in plan)

FirstWorkers(t, plan) ==
  LET planned == PlannedTasks(plan)
      size == IF mode = "dailyAll"
              THEN Min(DefaultMaxConcurrentWorkers, Len(planned))
              ELSE Min(1, Len(planned))
  IN {<<t, planned[i]>> : i \in 1..size}

\* The workers of wallet task t that are running.
WorkersOf(t) == {w \in activeWorkers : w[1] = t}

\* run: the plan is made: plan is the set of chains it has a task for.  With
\* no task to do the run returns at once, else it goes on to run its workers.
WalletPlanned(t, plan) ==
  /\ mode \in RunForAllModes
  /\ t \in 1..N /\ wstate[t] = "planning"
  /\ IF plan # {}
     THEN /\ wstate' = [wstate EXCEPT ![t] = "working"]
          /\ activeWorkers' = activeWorkers \cup FirstWorkers(t, plan)
          /\ UNCHANGED <<promise, outcome, settled>>
     ELSE /\ wstate' = [wstate EXCEPT ![t] = "returned"]
          /\ outcome' = [outcome EXCEPT ![t] = "returned"]
          /\ promise' = [promise EXCEPT ![t] = Resolve(@, NoResult)]
          /\ settled' = Append(settled, t)
          /\ UNCHANGED activeWorkers
  /\ UNCHANGED <<questCompleted, mode, tasks, maxConcurrent,
                 bpc, processedCount, results>>

\* A worker of wallet task t ends (message, error or exit) and leaves the
\* manager's activeWorkers map.  In the services that await one runWorker
\* at a time, next is the chain of the task the loop of run goes on to, if
\* any: its worker is started as the loop continues.
WalletWorkerEnds(t, c, next) ==
  /\ mode \in RunForAllModes
  /\ t \in 1..N /\ wstate[t] = "working"
  /\ <<t, c>> \in activeWorkers
  /\ next # {} => (mode # "dailyAll" /\ next = DailyChains \ {c})
  /\ activeWorkers' = (activeWorkers \ {<<t, c>>}) \cup {<<t, n>> : n \in next}
  /\ UNCHANGED <<questCompleted, mode, tasks, maxConcurrent,
                 bpc, processedCount, results, promise, wstate,
                 outcome, settled>>

\* run: readProgressData or prepareWalletTasks (getSuitableSourceChain)
\* throws.  Nothing in run catches it: the promise of run rejects.
WalletPlanThrows(t) ==
  /\ mode \in RunForAllModes
  /\ t \in 1..N /\ wstate[t] = "planning"
  /\ wstate' = [wstate EXCEPT ![t] = "threw"]
  /\ outcome' = [outcome EXCEPT ![t] = "threw"]
  /\ promise' = [promise EXCEPT ![t] = Reject(@, NoResult)]
  /\ settled' = Append(settled, t)
  /\ UNCHANGED <<questCompleted, mode, tasks, maxConcurrent,
                 bpc, processedCount, results,
                 activeWorkers>>

\* run: the wallet's workers are done (their failures are results or are
\* caught inside run); run returns.
WalletRunReturns(t) ==
  /\ mode \in RunForAllModes
  /\ t \in 1..N /\ wstate[t] = "working"
  /\ WorkersOf(t) = {}
  /\ wstate' = [wstate EXCEPT ![t] = "returned"]
  /\ outcome' = [outcome EXCEPT ![t] = "returned"]
  /\ promise' = [promise EXCEPT ![t] = Resolve(@, NoResult)]
  /\ settled' = Append(settled, t)
  /\ UNCHANGED <<questCompleted, mode, tasks, maxConcurrent,
                 bpc, processedCount, results,
                 activeWorkers>>

\* await Promise.all(batch): rejects as soon as one run has rejected, and
\* runForAll, which has no try/catch, throws; else it resolves once every
\* run of the chunk has returned; processedCount += currentBatchSize.
RunForAllCollect ==
  /\ mode \in RunForAllModes /\ bpc = "await"
  /\ LET chunk == Chunk(processedCount)
     IN \/ /\ \E t \in chunk : promise[t].state = "rejected"
           /\ bpc' = "threw"
           /\ UNCHANGED processedCount
        \/ /\ \A t \in chunk : promise[t].state = "resolved"
           /\ processedCount' = processedCount + currentBatchSize(processedCount)
           /\ bpc' = "loop"
  /\ UNCHANGED <<questCompleted, mode, tasks, maxConcurrent,
                 results, promise, wstate,
                 activeWorkers, outcome, settled>>

\* The while condition fails: runForAll logs the completion and returns.
RunForAllReturn ==
  /\ mode \in RunForAllModes /\ bpc = "loop"
  /\ ~(processedCount < N)
  /\ bpc' = "done"
  /\ UNCHANGED <<questCompleted, mode, tasks, maxConcurrent,
                 processedCount, results, promise,
                 wstate, activeWorkers, outcome, settled>>

InitRunForAll ==
  /\ StoreUnused
  /\ ServiceUnused
  /\ mode \in RunForAllModes
  /\ \E n \in 0..MaxTasks : tasks = Tasks(n, FALSE)
  /\ maxConcurrent \in 1..MaxTasks
  /\ bpc = "loop"
  /\ processedCount = 0
  /\ results = << >>
  /\ promise = [t \in TaskIds |-> NoPromise]
  /\ wstate = [t \in TaskIds |-> "none"]
  /\ activeWorkers = {}
  /\ outcome = [t \in TaskIds |-> "none"]
  /\ settled = << >>
  /\ questCompleted = FALSE

NextRunForAll ==
  \/ RunForAllLaunch /\ UNCHANGED <<storeVars, serviceVars>>
  \/ \E t \in TaskIds : \E plan \in SUBSET DailyChains :
       WalletPlanned(t, plan) /\ UNCHANGED <<storeVars, serviceVars>>
  \/ \E t \in TaskIds : \E c \in DailyChains :
       \E next \in {{}, DailyChains \ {c}} :
         WalletWorkerEnds(t, c, next) /\ UNCHANGED <<storeVars, serviceVars>>
  \/ \E t \in TaskIds : WalletPlanThrows(t) /\ UNCHANGED <<storeVars, serviceVars>>
  \/ \E t \in TaskIds : WalletRunReturns(t) /\ UNCHANGED <<storeVars, serviceVars>>
  \/ RunForAllCollect /\ UNCHANGED <<storeVars, serviceVars>>
  \/ RunForAllReturn /\ UNCHANGED <<storeVars, serviceVars>>

SpecRunForAll == InitRunForAll /\ [][NextRunForAll]_vars

\* C17: an error raised while planning or running one wallet ends only that
\* wallet's run: runForAll itself never ends by throwing.
WalletErrorIsIsolated ==
  mode \in RunForAllModes => bpc # "threw"

\* The chunk discipline of runForAll as a condition on one state.
ChunkDiscipline ==
  /\ Cardinality(Processing) <= maxConcurrent
  /\ \A t \in 1..N :
       /\ t <= processedCount => wstate[t] = "returned"
       /\ (t > processedCount /\ wstate[t] # "none")
            => t \in Chunk(processedCount)
  /\ bpc = "done" => \A t \in 1..N : outcome[t] = "returned"

EveryStepSucceeded ==
  processedCount = N /\ \A t \in 1..N : outcome[t] = "success"

\* C19: crossChain[quest].completed is set to true by a quest attempt if
\* and only if every transfer step of the path succeeded in that attempt.
QuestCompletedIffAllSteps ==
  (mode = "crossChain" /\ bpc \in {"done", "failed"})
    => (questCompleted <=> EveryStepSucceeded)

\* C19, as the code has it: completed is set to true only if every step of
\* the path succeeded; an attempt that returns from its try block has set
\* it exactly when every step succeeded; an attempt whose store update
\* threw reports failure and leaves it false.
QuestCompletedOnlyIfAllSteps ==
  mode = "crossChain"
    => /\ questCompleted => EveryStepSucceeded
       /\ bpc = "done" => (questCompleted <=> EveryStepSucceeded)
       /\ bpc = "failed" => ~questCompleted

\* C19 witness: a path of at least two steps, all succeeded, marked.
QuestCompletedOnlyIfAllStepsWitness ==
  /\ mode = "crossChain" /\ bpc = "done" /\ N >= 2
  /\ EveryStepSucceeded /\ questCompleted

\* C20: within one attempt of a cross-chain quest, no step after the first
\* failed one is launched.
NoStepAfterFailure ==
  mode = "crossChain"
    => \A i \in 1..Len(results) :
         ~results[i].success
           => \A j \in 1..N : j > i => promise[j].state = "none"

(***************************************************************************)
(* Further claims about runBatch (SpecPool).                               *)
(***************************************************************************)
\* The tasks of the chunks before the current one all have their result,
\* and no task beyond the current chunk has been launched.
ChunksInOrder ==
  \A t \in 1..N :
    /\ t <= processedCount => promise[t].state = "resolved"
    /\ (t > processedCount /\ promise[t].state # "none")
         => t \in Chunk(processedCount)

\* What a step of runBatch must respect for the chunks to be separated.
CooldownStep ==
  mode \in BatchModes
    => /\ ChunksInOrder'
       /\ (bpc = "await" /\ bpc' \notin {"await", "threw"})
            => (bpc' = "sleep" <=> processedCount' < N)
       /\ bpc' = "sleep" => processedCount' < N
       /\ (bpc' = "loop" /\ bpc # "loop")
            => (bpc = "sleep" \/ ~(processedCount' < N))
       /\ (bpc' = "await" /\ bpc # "await")
            => (bpc = "loop" /\ Running = {})

\* C27: in runBatch no task of a chunk is launched before every task of
\* the chunk before it has produced its result; runBatch pauses after a
\* chunk exactly when tasks remain, and the next chunk is launched only
\* from the start or after that pause.
ChunksSeparatedByCooldown == [][CooldownStep]_vars

\* C27 witness: runBatch is in the pause between two chunks.
ChunksSeparatedByCooldownWitness ==
  /\ mode = "runBatch" /\ bpc = "sleep"
  /\ processedCount > 0 /\ processedCount < N
  /\ maxConcurrent >= 2

(***************************************************************************)
(* Reads that overlap a write of the same record (SpecStore).              *)
(***************************************************************************)
\* C28: a readProgressData that runs while another unit writes the same
\* wallet's record never observes a partially written record: when the
\* record was readable at the start and no unit died in the middle of a
\* write, the read never finds the record missing or unparsable (and so never
\* goes on to save the defaults over it).
ReadNeverSeesPartialWrite ==
  \A p \in Procs :
    ( /\ op[p].kind = "readProgressData"
      /\ Parses(initFile[op[p].wallet])
      /\ \A q \in Procs : pc[q] # "crashed" )
      => ~sawBad[p]

(***************************************************************************)
(* Planning reads the record (SpecStore).  prepareWalletTasks and          *)
(* prepareFaucetTask begin with readProgressData(); what that call does to *)
(* the store is what planning does to it.                                  *)
(***************************************************************************)
\* C30: planning performs no write to the progress store, also when the
\* wallet has no progress record: no step of a unit that is inside
\* readProgressData changes any record file.
PlanningWritesNothing ==
  [][\A p \in Procs :
       ( /\ op[p].kind = "readProgressData"
         /\ pc[p] \notin {"idle", "crashed"}
         /\ pc'[p] # pc[p] )
         => file' = file]_vars

(***************************************************************************)
(* Workers during runForAll of the Daily service (SpecRunForAll).          *)
(***************************************************************************)
\* C29: while DailyInteractionService.runForAll(privateKeys, maxThreads)
\* runs, the number of workers in the manager's activeWorkers map never
\* exceeds maxThreads.
ActiveWorkersWithinMaxThreads ==
  mode = "dailyAll" => Cardinality(activeWorkers) <= maxConcurrent

(***************************************************************************)
(* SpecTransferPlan: TransferQuestService with the completeNext option,    *)
(* for one wallet and one destination chain: the plan asks for             *)
(* determineTransfersNeeded(destChain, currentCount) transfers, the run    *)
(* performs them one after the other, and each transfer that succeeds      *)
(* counts one up (updateTransferCount).                                    *)
(***************************************************************************)
MaxCount == 501

\* config.quests.TRANSFER[chain]: the count of each quest, in list order.
TransferQuests ==
  [c \in DailyChains |-> <<1, 10, 25, 50, 250, 500>>]

\* for (i = 0; i < quests.length; i++): the first quest, from index i on,
\* whose count is above currentCount decides; with none left, 0.
RECURSIVE questLoop(_, _, _)
questLoop(quests, i, count) ==
  IF i > Len(quests) THEN 0
  ELSE IF count < quests[i] THEN quests[i] - count
       ELSE questLoop(quests, i + 1, count)

\* A plan that always aims at the last quest of the list.
determineTransfersNeededToLast(chain, count) ==
  LET quests == TransferQuests[chain]
  IN IF count < quests[Len(quests)] THEN quests[Len(quests)] - count ELSE 0

determineTransfersNeeded(chain, count) ==
  questLoop(TransferQuests[chain], 1, count)

\* prepareWalletTasks with options.completeNext.
PlanTransfers ==
  /\ tpc = "plan"
  /\ transfersToPerform' = determineTransfersNeeded(destChain, transferCount)
  /\ tpc' = "run"
  /\ UNCHANGED <<destChain, transferCount>>

\* run: the planned transfers are performed one at a time; succeeded of them
\* succeed, and each of those adds one to transfers[destChain].count.
RunTransfers(succeeded) ==
  /\ tpc = "run"
  /\ succeeded \in 0..transfersToPerform
  /\ transferCount + succeeded <= MaxCount
  /\ transferCount' = transferCount + succeeded
  /\ tpc' = "plan"
  /\ UNCHANGED <<destChain, transfersToPerform>>

InitTransferPlan ==
  /\ StoreUnused
  /\ PoolUnused
  /\ FaucetUnused
  /\ DailyUnused
  /\ QuestUnused
  /\ LaterUnused
  /\ tpc = "plan"
  /\ destChain \in DailyChains
  /\ transferCount \in 0..MaxCount
  /\ transfersToPerform = 0

notPlan == <<storeVars, poolVars, faucetVars, dailyVars, questVars, laterVars>>

NextTransferPlan ==
  \/ PlanTransfers /\ UNCHANGED notPlan
  \/ \E succeeded \in 0..MaxCount :
       RunTransfers(succeeded) /\ UNCHANGED notPlan

SpecTransferPlan == InitTransferPlan /\ [][NextTransferPlan]_vars

\* The milestones of the planned chain that are strictly above the count.
MilestonesAbove ==
  {TransferQuests[destChain][i] : i \in 1..Len(TransferQuests[destChain])}
    \cap {m \in 0..(MaxCount + 1) : m > transferCount}

\* C25: determineTransfersNeeded(chain, count) is the smallest milestone
\* strictly greater than count, minus count, and 0 when count has reached
\* every milestone: with the milestones 1, 10, 25, 50, 250, 500 it is 3 at
\* count 7 and 0 at count 500.
TransfersNeededReachNextMilestone ==
  tpc = "run"
    => /\ MilestonesAbove = {} => transfersToPerform = 0
       /\ MilestonesAbove # {}
            => /\ transferCount + transfersToPerform \in MilestonesAbove
               /\ \A m \in MilestonesAbove :
                    transferCount + transfersToPerform <= m
       /\ transferCount = 7 => transfersToPerform = 3
       /\ transferCount = 500 => transfersToPerform = 0

\* C25 witness: a plan made at count 7, reached by performing transfers.
TransfersNeededReachNextMilestoneWitness ==
  /\ tpc = "run" /\ transferCount = 7 /\ transfersToPerform = 3

(***************************************************************************)
(* SpecFaucet: requestFaucet of the faucet worker.  The balance is the     *)
(* chain's; it changes when the faucet pays and whenever somebody else     *)
(* moves funds to or from the address.                                     *)
(***************************************************************************)
MaxAttempts == 2
MaxRetries == 3
MaxBalance == 2

\* A loop condition that lets one attempt too many through.
keepTryingInclusive(ok, n, cap) == ~ok /\ (cap = 0 \/ n <= cap)

\* !success && (maxAttempts === 0 || attempts < maxAttempts)
keepTrying(ok, n, cap) == ~ok /\ (cap = 0 \/ n < cap)

\* const initialBalance = await getBalance(...), before the loop and outside
\* any try: a getBalance that throws ends requestFaucet with the error.
InitialBalance(ok) ==
  /\ fpc = "start"
  /\ IF ok
     THEN /\ initialBalance' = balance
          /\ fpc' = "loop"
     ELSE /\ fpc' = "threw"
          /\ UNCHANGED initialBalance
  /\ UNCHANGED <<maxAttempts, attempts, success, balance>>

\* The while condition: attempts++ and the attempt begins, or the loop is
\* left and requestFaucet returns {success, attempts, ...}.
FaucetLoop ==
  /\ fpc = "loop"
  /\ IF keepTrying(success, attempts, maxAttempts)
     THEN /\ attempts < MaxRetries
          /\ attempts' = attempts + 1
          /\ fpc' = "captcha"
     ELSE /\ fpc' = "returned"
          /\ UNCHANGED attempts
  /\ UNCHANGED <<maxAttempts, success, initialBalance, balance>>

\* solveTurnstile: a token (on to the request), no token (continue: straight
\* back to the while condition), or an exception (the catch block).
SolveCaptcha(how) ==
  /\ fpc = "captcha"
  /\ fpc' = CASE how = "token" -> "request"
              [] how = "none" -> "loop"
              [] OTHER -> "catch"
  /\ UNCHANGED <<maxAttempts, attempts, success, initialBalance, balance>>

\* sendFaucetRequest and the 60 s sleep: the faucet pays or does not (an
\* ERROR answer is only logged), or the request throws.
SendFaucetRequest(how) ==
  /\ fpc = "request"
  /\ CASE how = "paid" -> /\ balance < MaxBalance
                          /\ balance' = balance + 1
                          /\ fpc' = "check"
       [] how = "unpaid" -> /\ fpc' = "check"
                            /\ UNCHANGED balance
       [] OTHER -> /\ fpc' = "catch"
                   /\ UNCHANGED balance
  /\ UNCHANGED <<maxAttempts, attempts, success, initialBalance>>

\* const newBalance = await getBalance(...): an increase over initialBalance
\* sets success; otherwise the 15 s sleep if another attempt follows.
CheckBalance ==
  /\ fpc = "check"
  /\ IF balance > initialBalance
     THEN /\ success' = TRUE
          /\ fpc' = "loop"
     ELSE /\ success' = success
          /\ fpc' = IF keepTrying(success, attempts, maxAttempts)
                    THEN "wait" ELSE "loop"
  /\ UNCHANGED <<maxAttempts, attempts, initialBalance, balance>>

\* getBalance throws inside the attempt: the catch block.
CheckBalanceThrows ==
  /\ fpc = "check"
  /\ fpc' = "catch"
  /\ UNCHANGED <<maxAttempts, attempts, success, initialBalance, balance>>

\* catch (error): logged; then, like after a check without increase, the
\* 15 s sleep if another attempt follows, and back to the while condition.
FaucetWait ==
  /\ fpc \in {"catch", "wait"}
  /\ fpc' = IF fpc = "catch" /\ keepTrying(success, attempts, maxAttempts)
            THEN "wait" ELSE "loop"
  /\ UNCHANGED <<maxAttempts, attempts, success, initialBalance, balance>>

\* Somebody else moves funds to or from the address.
BalanceChanges(b) ==
  /\ fpc \notin {"returned", "threw"}
  /\ b # balance
  /\ balance' = b
  /\ UNCHANGED <<fpc, maxAttempts, attempts, success, initialBalance>>

InitFaucet ==
  /\ StoreUnused
  /\ PoolUnused
  /\ PlanUnused
  /\ DailyUnused
  /\ QuestUnused
  /\ LaterUnused
  /\ fpc = "start"
  /\ maxAttempts \in 0..MaxAttempts
  /\ attempts = 0
  /\ success = FALSE
  /\ initialBalance = 0
  /\ balance \in 0..MaxBalance

notFaucet == <<storeVars, poolVars, planVars, dailyVars, questVars, laterVars>>

NextFaucet ==
  \/ \E ok \in BOOLEAN :
       InitialBalance(ok) /\ UNCHANGED notFaucet
  \/ FaucetLoop /\ UNCHANGED notFaucet
  \/ \E how \in {"token", "none", "throws"} :
       SolveCaptcha(how) /\ UNCHANGED notFaucet
  \/ \E how \in {"paid", "unpaid", "throws"} :
       SendFaucetRequest(how) /\ UNCHANGED notFaucet
  \/ CheckBalance /\ UNCHANGED notFaucet
  \/ CheckBalanceThrows /\ UNCHANGED notFaucet
  \/ FaucetWait /\ UNCHANGED notFaucet
  \/ \E b \in 0..MaxBalance :
       BalanceChanges(b) /\ UNCHANGED notFaucet

SpecFaucet == InitFaucet /\ [][NextFaucet]_vars

\* What a step of requestFaucet must respect.
FaucetStep ==
  /\ (maxAttempts > 0) => attempts' <= maxAttempts
  /\ (attempts' # attempts) => (attempts' = attempts + 1 /\ ~success)
  /\ (fpc = "check" /\ fpc' \notin {"check", "catch"})
       => (success' <=> balance > initialBalance)
  /\ (success' # success) => (fpc = "check" /\ success')
  /\ (fpc' = "returned" /\ maxAttempts = 0) => success'
  /\ (fpc' = "returned" /\ ~success') => attempts' = maxAttempts

\* C26: with a cap maxAttempts > 0 the faucet task makes at most maxAttempts
\* attempts and starts no attempt once a balance check has found the
\* balance above the initial one; with cap 0 its loop ends only after such
\* a check; and success is set exactly by a balance check that finds the
\* balance above the initial one.
FaucetRetriesWithinCap == [][FaucetStep]_vars

\* C26 witness: a capped task that failed, retried, then saw the balance
\* rise and returned with success at its last allowed attempt.
FaucetRetriesWithinCapWitness ==
  /\ fpc = "returned" /\ success
  /\ maxAttempts = 2 /\ attempts = 2
  /\ balance > initialBalance

(***************************************************************************)
(* SpecDaily: DailyInteractionService.run for wallet 0, over the progress  *)
(* store of SpecStore.  The main thread plans (readProgressData, then      *)
(* prepareWalletTasks), runBatch starts the transfer worker of every task  *)
(* at once (at most two tasks, the manager's limit is three), and a worker *)
(* whose transfer succeeded calls updateDailyInteraction before it reports *)
(* success.  Unit 1 is the main thread while it plans; unit i is the       *)
(* worker of task i.  The run can be repeated on the same date.            *)
(***************************************************************************)
\* A wallet's record: addresses known for the chains in known, and the daily
\* chains last interacted with on the dates in last.
DailyRecord(known, last) ==
  [getDefaultProgressData(0) EXCEPT
     !.addresses = [c \in Chains |-> IF c \in known THEN "addr" ELSE Null],
     !.dailyInteractions =
        [c \in DailyChains |->
           [lastInteraction |-> last[c],
            count |-> IF last[c] = NoDate THEN 0 ELSE 1]]]

\* A due check that does not look at the address.
needsDailyInteractionIgnoringAddress(chain, today, data) ==
  data.dailyInteractions[chain].lastInteraction # today

needsDailyInteraction(chain, today, data) ==
  /\ data.dailyInteractions[chain].lastInteraction # today
  /\ data.addresses[chain] # Null

createDailyInteractionTask(chain, walletIndex, data, today) ==
  [workerPath |-> "transferWorker.js", walletIndex |-> walletIndex,
   sourceChain |-> chain, destinationChain |-> chain,
   receiverAddress |-> data.addresses[chain],
   updateProgress |-> TRUE, isDaily |-> TRUE]

\* The tasks of DailyInteractionService.prepareWalletTasks, from the record
\* it read: UNION first, then BABYLON.
prepareWalletTasks(walletIndex, data, today) ==
  (IF needsDailyInteraction("UNION", today, data)
   THEN <<createDailyInteractionTask("UNION", walletIndex, data, today)>>
   ELSE << >>)
  \o
  (IF needsDailyInteraction("BABYLON", today, data)
   THEN <<createDailyInteractionTask("BABYLON", walletIndex, data, today)>>
   ELSE << >>)

ReadOp(w) == [kind |-> "readProgressData", wallet |-> w, chain |-> NoChain,
              quest |-> NoQuest, date |-> NoDate]

DailyOp(w, chain, date) ==
  [kind |-> "updateDailyInteraction", wallet |-> w, chain |-> chain,
   quest |-> NoQuest, date |-> date]

\* run is called: prepareWalletTasks begins with readProgressData().
DailyRunStarts ==
  /\ dpc = "idle" /\ AllIdle
  /\ Call(1, ReadOp(0))
  /\ dpc' = "planning"
  /\ UNCHANGED <<progressData, dailyTasks, taskState, doneToday>>

\* readProgressData has returned, and prepareWalletTasks returns its tasks;
\* or it has thrown, and so does run.
DailyPlanned ==
  /\ dpc = "planning" /\ pc[1] = "idle"
  /\ IF result[1] = "ok"
     THEN /\ progressData' = cur[1]
          /\ dailyTasks' = prepareWalletTasks(0, cur[1], Day(now))
          /\ taskState' = [i \in 1..Len(dailyTasks') |-> "none"]
          /\ dpc' = "planned"
     ELSE /\ dpc' = "threw"
          /\ UNCHANGED <<progressData, dailyTasks, taskState>>
  /\ UNCHANGED doneToday
  /\ UNCHANGED storeVars

\* if (tasks.length === 0) return; else workerManager.runBatch(tasks): every
\* worker of the (only) chunk is started.
DailyRunBatch ==
  /\ dpc = "planned"
  /\ IF Len(dailyTasks) = 0
     THEN /\ dpc' = "idle"
          /\ UNCHANGED taskState
     ELSE /\ dpc' = "working"
          /\ taskState' = [i \in 1..Len(dailyTasks) |-> "transfer"]
  /\ UNCHANGED <<progressData, dailyTasks, doneToday>>
  /\ UNCHANGED storeVars

\* transferWorker: the transfer fails (failure is posted), or it succeeds and
\* the worker calls updateDailyInteraction(destinationChain, <its date>).
DailyTransfer(i, ok) ==
  /\ dpc = "working"
  /\ i \in 1..Len(dailyTasks) /\ taskState[i] = "transfer"
  /\ IF ok
     THEN /\ Enter(i, DailyOp(0, dailyTasks[i].destinationChain, Day(now)))
          /\ taskState' = [taskState EXCEPT ![i] = "updating"]
          /\ UNCHANGED calls
     ELSE /\ taskState' = [taskState EXCEPT ![i] = "failed"]
          /\ UNCHANGED storeVars
  /\ UNCHANGED <<dpc, progressData, dailyTasks, doneToday>>

\* transferWorker: updateDailyInteraction has returned and success is
\* posted, or it has thrown and the catch block posts the failure.
DailyWorkerPosts(i) ==
  /\ dpc = "working"
  /\ i \in 1..Len(dailyTasks) /\ taskState[i] = "updating"
  /\ pc[i] = "idle"
  /\ IF result[i] = "ok"
     THEN /\ taskState' = [taskState EXCEPT ![i] = "success"]
          /\ doneToday' = doneToday \cup {dailyTasks[i].destinationChain}
     ELSE /\ taskState' = [taskState EXCEPT ![i] = "failed"]
          /\ UNCHANGED doneToday
  /\ UNCHANGED <<dpc, progressData, dailyTasks>>
  /\ UNCHANGED storeVars

\* runBatch returns with the results of all workers; run logs and returns.
DailyRunReturns ==
  /\ dpc = "working"
  /\ \A i \in 1..Len(dailyTasks) : taskState[i] \in {"success", "failed"}
  /\ dpc' = "idle"
  /\ UNCHANGED <<progressData, dailyTasks, taskState, doneToday>>
  /\ UNCHANGED storeVars

InitDaily ==
  /\ PoolUnused
  /\ PlanUnused
  /\ FaucetUnused
  /\ QuestUnused
  /\ LaterUnused
  /\ now = TicksPerDay
  /\ \E known \in SUBSET DailyChains :
       \E last \in [DailyChains -> {NoDate, Day(now) - 1, Day(now)}] :
         file = [w \in Wallets |->
                   IF w = 0 THEN Data(DailyRecord(known, last))
                   ELSE Data(getDefaultProgressData(0))]
  /\ lock = [w \in Wallets |-> FALSE]
  /\ pc = [p \in Procs |-> "idle"]
  /\ ctx = [p \in Procs |-> << >>]
  /\ op = [p \in Procs |-> NoOp]
  /\ cur = [p \in Procs |-> NoData]
  /\ err = [p \in Procs |-> FALSE]
  /\ held = [p \in Procs |-> 0]
  /\ result = [p \in Procs |-> "none"]
  /\ calls = 0
  /\ initFile = file
  /\ clean = [w \in Wallets |-> TRUE]
  /\ okIncrements = [w \in Wallets |-> [c \in DailyChains |-> 0]]
  /\ sawBad = [p \in Procs |-> FALSE]
  /\ dpc = "idle"
  /\ progressData = NoData
  /\ dailyTasks = << >>
  /\ taskState = << >>
  /\ doneToday = {}

notDaily == <<poolVars, planVars, faucetVars, questVars, laterVars>>

NextDaily ==
  \/ DailyRunStarts /\ UNCHANGED notDaily
  \/ DailyPlanned /\ UNCHANGED notDaily
  \/ DailyRunBatch /\ UNCHANGED notDaily
  \/ \E i \in Procs : \E ok \in BOOLEAN :
       DailyTransfer(i, ok) /\ UNCHANGED notDaily
  \/ \E i \in Procs : DailyWorkerPosts(i) /\ UNCHANGED notDaily
  \/ DailyRunReturns /\ UNCHANGED notDaily
  \/ \E p \in Procs : WaitForLockAccess(p) /\ UNCHANGED <<notDaily, dailyVars>>
  \/ \E p \in Procs : WaitForLockCreate(p) /\ UNCHANGED <<notDaily, dailyVars>>
  \/ \E p \in Procs : WaitForLockRetry(p) /\ UNCHANGED <<notDaily, dailyVars>>
  \/ \E p \in Procs : WaitForLockTimeout(p) /\ UNCHANGED <<notDaily, dailyVars>>
  \/ \E p \in Procs : ReadFile(p) /\ UNCHANGED <<notDaily, dailyVars>>
  \/ \E p \in Procs : WriteFileOpen(p) /\ UNCHANGED <<notDaily, dailyVars>>
  \/ \E p \in Procs : WriteFileData(p) /\ UNCHANGED <<notDaily, dailyVars>>
  \/ \E p \in Procs : ReleaseLock(p) /\ UNCHANGED <<notDaily, dailyVars>>

SpecDaily == InitDaily /\ [][NextDaily]_vars

\* The tasks of the plan that are for chain c.
TasksFor(c) ==
  {i \in 1..Len(dailyTasks) : dailyTasks[i].destinationChain = c}

DailySuccessCountsOnce ==
  AllIdle
    => \A c \in doneToday :
         /\ Parses(file[0])
         /\ file[0].data.dailyInteractions[c] =
              [lastInteraction |-> Day(now),
               count |-> initFile[0].data.dailyInteractions[c].count + 1]

(***************************************************************************)
(* SpecCrossChainRun: CrossChainQuestService.run for one wallet, quest by  *)
(* quest.  What happens inside one attempt (the steps of the path and      *)
(* their workers) is SpecPool's mode crossChain; here an attempt is one    *)
(* step with its outcome.                                                  *)
(***************************************************************************)
MaxRuns == 2
MaxIdleChunks == 2

\* config.quests.CROSS_CHAIN, in list order, and the path of each quest.
CrossChainQuests == <<"CHAIN_REACTION", "TRIPLE_THREAT", "SIX_CHAINS">>

QuestPath ==
  [q \in Quests |->
     CASE q = "CHAIN_REACTION" -> <<"UNION", "BABYLON">>
       [] q = "TRIPLE_THREAT" -> <<"UNION", "BABYLON", "STARGAZE">>
       [] OTHER -> <<"UNION", "BABYLON", "STARGAZE", "STRIDE", "BABYLON",
                     "UNION">>]

RunOptions == {"all", "none", "NO_SUCH_QUEST"} \cup Quests

\* run, 'all' loop: if (progressData.crossChain[q.name].completed) continue.
skipsCompleted(data, q) == data[q]

\* A check that never finds a quest completed.
neverCompleted(data, q) == FALSE

\* executeCrossChainQuest: progressData.crossChain[questName] &&
\* progressData.crossChain[questName].completed.
alreadyCompleted(data, q) == q \in DOMAIN data /\ data[q]

\* A loop that stops at the first quest that failed.
afterQuestBreakOnFailure(ok, i) ==
  IF ok THEN i + 1 ELSE Len(CrossChainQuests) + 1

\* run, 'all' loop: a failed quest only clears allSuccess; the loop goes on.
afterQuest(ok, i) == i + 1

\* What executeCrossChainQuest(q, ...) returns: false for an unknown quest,
\* true for one the record it was given shows completed, else whether every
\* step succeeded and the update of the record went through.
QuestReturns(q, stepsOk, updateOk) ==
  IF q \notin Quests THEN FALSE
  ELSE IF alreadyCompleted(crossChainData, q) THEN TRUE
       ELSE stepsOk /\ updateOk

\* executeCrossChainQuest(q, ...): an unknown or already completed quest
\* launches nothing and writes nothing; otherwise every step of the path is
\* launched, and the quest is marked completed if all of them succeeded.
ExecuteQuest(q, stepsOk, updateOk) ==
  IF q \notin Quests \/ alreadyCompleted(crossChainData, q)
  THEN /\ UNCHANGED <<attempted, launched, crossChainStored>>
       /\ failedQuests' = IF q \notin Quests THEN failedQuests \cup {q}
                          ELSE failedQuests
  ELSE /\ attempted' = Append(attempted, q)
       /\ launched' = launched + Len(QuestPath[q]) - 1
       /\ crossChainStored' =
            IF stepsOk /\ updateOk
            THEN [crossChainStored EXCEPT ![q] = TRUE]
            ELSE crossChainStored
       /\ failedQuests' = IF stepsOk /\ updateOk THEN failedQuests
                          ELSE failedQuests \cup {q}

\* run(privateKey, walletIndex, options) is called.
RunStarts(opt) ==
  /\ qpc \in {"idle", "done", "threw"}
  /\ runs < MaxRuns
  /\ runs' = runs + 1
  /\ options' = opt
  /\ qpc' = "read"
  /\ qi' = 0
  /\ attempted' = << >>
  /\ launched' = 0
  /\ failedQuests' = {}
  /\ UNCHANGED <<crossChainStored, crossChainData>>

\* const progressData = await progressService.readProgressData(), outside
\* the try block: if it throws, so does run.
RunReads(ok) ==
  /\ qpc = "read"
  /\ IF ok
     THEN /\ crossChainData' = crossChainStored
          /\ qpc' = CASE options = "all" -> "loop"
                      [] options = "none" -> "done"
                      [] OTHER -> "single"
          /\ qi' = 1
     ELSE /\ qpc' = "threw"
          /\ UNCHANGED <<crossChainData, qi>>
  /\ UNCHANGED <<options, crossChainStored, attempted, launched,
                 failedQuests, runs>>

\* One turn of for (const q of quests).
AllQuestNext(stepsOk, updateOk) ==
  /\ qpc = "loop" /\ qi <= Len(CrossChainQuests)
  /\ LET q == CrossChainQuests[qi]
     IN IF skipsCompleted(crossChainData, q)
        THEN /\ qi' = qi + 1
             /\ UNCHANGED <<attempted, launched, crossChainStored,
                            failedQuests>>
        ELSE /\ ExecuteQuest(q, stepsOk, updateOk)
             /\ qi' = afterQuest(QuestReturns(q, stepsOk, updateOk), qi)
  /\ UNCHANGED <<qpc, options, crossChainData, runs>>

\* The loop is over; the summary is logged and run returns.
AllQuestsDone ==
  /\ qpc = "loop" /\ qi > Len(CrossChainQuests)
  /\ qpc' = "done"
  /\ UNCHANGED <<options, crossChainStored, crossChainData, qi, attempted,
                 launched, failedQuests, runs>>

\* else if (quest): the one quest named, whatever it returns.
SingleQuest(stepsOk, updateOk) ==
  /\ qpc = "single"
  /\ ExecuteQuest(options, stepsOk, updateOk)
  /\ qpc' = "done"
  /\ UNCHANGED <<options, crossChainData, qi, runs>>

InitCrossChainRun ==
  /\ StoreUnused
  /\ PoolUnused
  /\ PlanUnused
  /\ FaucetUnused
  /\ DailyUnused
  /\ LaterUnused
  /\ qpc = "idle"
  /\ options = "none"
  /\ crossChainStored \in [Quests -> BOOLEAN]
  /\ crossChainData = [q \in Quests |-> FALSE]
  /\ qi = 0
  /\ attempted = << >>
  /\ launched = 0
  /\ failedQuests = {}
  /\ runs = 0

notQuest == <<storeVars, poolVars, planVars, faucetVars, dailyVars,
              laterVars>>

NextCrossChainRun ==
  \/ \E opt \in RunOptions : RunStarts(opt) /\ UNCHANGED notQuest
  \/ \E ok \in BOOLEAN : RunReads(ok) /\ UNCHANGED notQuest
  \/ \E stepsOk \in BOOLEAN : \E updateOk \in BOOLEAN :
       AllQuestNext(stepsOk, updateOk) /\ UNCHANGED notQuest
  \/ AllQuestsDone /\ UNCHANGED notQuest
  \/ \E stepsOk \in BOOLEAN : \E updateOk \in BOOLEAN :
       SingleQuest(stepsOk, updateOk) /\ UNCHANGED notQuest

SpecCrossChainRun == InitCrossChainRun /\ [][NextCrossChainRun]_vars

\* The quests of the configuration, up to index n, that the record run read
\* does not show completed, in configuration order.
OpenQuests(n) ==
  SelectSeq(SubSeq(CrossChainQuests, 1, n), LAMBDA q : ~crossChainData[q])

\* C21: a run with the 'all' option attempts every configured quest that is
\* not yet completed, in configuration order, whether or not an earlier
\* quest of the run failed: while the loop is at index qi the quests before
\* it have been attempted, and at the end all of them.
AllOptionAttemptsEveryOpenQuest ==
  /\ (options = "all" /\ qpc = "loop")
       => (qi <= Len(CrossChainQuests) + 1 /\ attempted = OpenQuests(qi - 1))
  /\ (options = "all" /\ qpc = "done")
       => attempted = OpenQuests(Len(CrossChainQuests))

\* C21 witness: the first quest failed and the run went on to attempt the
\* other two.
AllOptionAttemptsEveryOpenQuestWitness ==
  /\ options = "all" /\ qpc = "done"
  /\ attempted = CrossChainQuests
  /\ "CHAIN_REACTION" \in failedQuests

\* What a step of run must respect when the quest it is at is one the
\* durable record marks completed.
CompletedQuestStep ==
  LET q == IF qpc = "single" THEN options
           ELSE IF qpc = "loop" /\ qi <= Len(CrossChainQuests)
                THEN CrossChainQuests[qi] ELSE NoQuest
  IN (q \in Quests /\ crossChainStored[q])
       => /\ launched' = launched
          /\ attempted' = attempted
          /\ crossChainStored' = crossChainStored

\* C22: running a cross-chain quest that the progress record marks
\* completed launches no transfer and leaves the record as it is, with the
\* single-quest option and with the 'all' option.
CompletedQuestIsNotRerun == [][CompletedQuestStep]_vars

\* C22 witness: the second run for the wallet, for one quest that the
\* record marks completed, has returned and launched nothing.
CompletedQuestIsNotRerunWitness ==
  /\ runs = 2 /\ qpc = "done"
  /\ options \in Quests /\ crossChainData[options]
  /\ crossChainStored[options]
  /\ launched = 0 /\ attempted = << >>

\* ---------------------------------------------------------------------
\* Source chain selection of the Transfer service (SpecSourceChain)
\* ---------------------------------------------------------------------

\* Object.keys(this.config.chains), in the order the configuration lists them.
ChainOrder == <<"UNION", "BABYLON", "STARGAZE", "STRIDE">>

\* progressData.addresses[chain] taken as a condition: a missing key
\* (undefined) and null are both falsy.
hasAddress(addrs, chain) == chain \in DOMAIN addrs /\ addrs[chain] # Null

availableChainsAnyDest(dest, addrs) ==
  SelectSeq(ChainOrder, LAMBDA chain : hasAddress(addrs, chain))

\* Object.keys(...).filter(chain => chain !== destChain && addresses[chain])
availableChains(dest, addrs) ==
  SelectSeq(ChainOrder, LAMBDA chain : chain # dest /\ hasAddress(addrs, chain))

Includes(seq, x) == \E i \in 1..Len(seq) : seq[i] = x

NoSourceChain == [threw |-> TRUE, chain |-> NoChain]
Source(chain) == [threw |-> FALSE, chain |-> chain]

getSuitableSourceChain(dest, addrs) ==
  LET available == availableChains(dest, addrs) IN
  IF dest = "UNION" /\ hasAddress(addrs, "STARGAZE") THEN Source("STARGAZE")
  ELSE IF dest = "BABYLON" /\ hasAddress(addrs, "UNION") THEN Source("UNION")
  ELSE IF Len(available) = 0 THEN NoSourceChain
  ELSE IF Includes(available, "STARGAZE") THEN Source("STARGAZE")
  ELSE IF Includes(available, "STRIDE") THEN Source("STRIDE")
  ELSE IF Includes(available, "UNION") THEN Source("UNION")
  ELSE Source(available[1])

\* One call of getSuitableSourceChain(destChain, progressData).
SelectSource ==
  /\ spc = "start"
  /\ LET r == getSuitableSourceChain(srcDest, srcAddresses) IN
       /\ spc' = IF r.threw THEN "threw" ELSE "returned"
       /\ sourceChain' = r.chain
  /\ UNCHANGED <<srcDest, srcAddresses>>

\* The caller's loop asks again for the next destination of its plan.
NextDestination(dest) ==
  /\ spc \in {"returned", "threw"}
  /\ dest # srcDest
  /\ spc' = "start"
  /\ srcDest' = dest
  /\ sourceChain' = NoChain
  /\ UNCHANGED srcAddresses

InitSourceChain ==
  /\ StoreUnused
  /\ PoolUnused
  /\ PlanUnused
  /\ FaucetUnused
  /\ DailyUnused
  /\ QuestUnused
  /\ RecoverUnused
  /\ RunUnused
  /\ spc = "start"
  /\ srcDest \in Chains
  /\ \E known \in SUBSET Chains : srcAddresses \in [known -> {Null, "address"}]
  /\ sourceChain = NoChain

notSource == <<storeVars, poolVars, planVars, faucetVars, dailyVars, questVars,
               recoverVars, runVars>>

NextSourceChain ==
  \/ SelectSource /\ UNCHANGED notSource
  \/ \E dest \in Chains : NextDestination(dest) /\ UNCHANGED notSource

SpecSourceChain == InitSourceChain /\ [][NextSourceChain]_vars

OtherDerived(dest, addrs) ==
  {c \in Chains : c # dest /\ c \in DOMAIN addrs /\ addrs[c] # Null}

\* C31: getSuitableSourceChain never returns the destination itself and only
\* returns a chain whose address is derived; it raises an error exactly when no
\* chain other than the destination has a derived address.
SourceIsDerivedAndNotDest ==
  /\ spc = "returned" =>
       /\ sourceChain # srcDest
       /\ sourceChain \in OtherDerived(srcDest, srcAddresses)
  /\ spc = "threw" => OtherDerived(srcDest, srcAddresses) = {}
  /\ spc \in {"returned", "threw"} =>
       (spc = "threw" <=> OtherDerived(srcDest, srcAddresses) = {})

\* The destination is the most preferred source and has an address of its own,
\* and another chain is chosen.
SourceChosenPastDest ==
  /\ spc = "returned"
  /\ srcDest = "STARGAZE"
  /\ "STARGAZE" \in DOMAIN srcAddresses
  /\ srcAddresses["STARGAZE"] # Null
  /\ sourceChain = "BABYLON"

\* ---------------------------------------------------------------------
\* A bad main record next to a backup copy (SpecRecover)
\* ---------------------------------------------------------------------

\* A record with progress in it, as a backup copy would hold it.
ProgressMade ==
  updateTransferCount(updateAddress(getDefaultProgressData(0), "UNION", "addr"),
                      "UNION", 1)

\* The store with a backup copy beside each record.  The service in effect
\* neither reads nor writes progress-<wallet>.backup.json, so the copy stays
\* as it was found.
InitRecover ==
  /\ PoolUnused
  /\ PlanUnused
  /\ FaucetUnused
  /\ DailyUnused
  /\ QuestUnused
  /\ SourceUnused
  /\ RunUnused
  /\ file \in [Wallets -> {Corrupt, Empty, Data(ProgressMade)}]
  /\ backupFile \in [Wallets -> {Missing, Corrupt, Data(ProgressMade),
                                 Data(PartialData)}]
  /\ lock = [w \in Wallets |-> FALSE]
  /\ now = TicksPerDay
  /\ pc = [p \in Procs |-> "idle"]
  /\ ctx = [p \in Procs |-> << >>]
  /\ op = [p \in Procs |-> NoOp]
  /\ cur = [p \in Procs |-> NoData]
  /\ err = [p \in Procs |-> FALSE]
  /\ held = [p \in Procs |-> 0]
  /\ result = [p \in Procs |-> "none"]
  /\ calls = 0
  /\ initFile = file
  /\ clean = [w \in Wallets |-> TRUE]
  /\ okIncrements = [w \in Wallets |-> [c \in DailyChains |-> 0]]
  /\ sawBad = [p \in Procs |-> FALSE]

notStore == <<poolVars, serviceVars>>

NextRecover ==
  \/ \E p \in Procs : \E w \in Wallets : Call(p, ReadOp(w)) /\ UNCHANGED notStore
  \/ \E p \in Procs : WaitForLockAccess(p) /\ UNCHANGED notStore
  \/ \E p \in Procs : WaitForLockCreate(p) /\ UNCHANGED notStore
  \/ \E p \in Procs : WaitForLockRetry(p) /\ UNCHANGED notStore
  \/ \E p \in Procs : WaitForLockTimeout(p) /\ UNCHANGED notStore
  \/ \E p \in Procs : ReadFile(p) /\ UNCHANGED notStore
  \/ \E p \in Procs : WriteFileOpen(p) /\ UNCHANGED notStore
  \/ \E p \in Procs : WriteFileData(p) /\ UNCHANGED notStore
  \/ \E p \in Procs : ReleaseLock(p) /\ UNCHANGED notStore

SpecRecover == InitRecover /\ [][NextRecover]_vars

SameContent(a, b) == [a EXCEPT !.lastUpdated = 0] = [b EXCEPT !.lastUpdated = 0]

Unfinished == {t \in 1..N : wstate[t] = "running"}

InFlight == {t \in 1..N : promise[t].state = "pending"}

\* C33: activeWorkers holds exactly the ids of the workers launched and not
\* yet finished: a launched worker stays in it until its outcome or exit, none
\* is left after its exit, and getActiveWorkerCount() is 0 whenever no
\* runWorker call is in flight.
ActiveWorkersAreTheUnfinished ==
  /\ activeWorkers = {tasks[t].workerId : t \in Unfinished}
  /\ \A t \in 1..N : wstate[t] = "exited" => tasks[t].workerId \notin activeWorkers
  /\ InFlight = {} => Cardinality(activeWorkers) = 0

\* A worker ended with code 0 and no message while another of its chunk is
\* still at work.
ActiveWorkersAreTheUnfinishedWitness ==
  /\ mode = "runBatch"
  /\ N >= 2
  /\ wstate[1] = "exited" /\ outcome[1] = "silent"
  /\ activeWorkers = {tasks[2].workerId}

\* ---------------------------------------------------------------------
\* After a unit died holding a wallet's lock (SpecStaleLock)
\* ---------------------------------------------------------------------

Mutation(o) == o.kind \in Mutators

\* Unit 2 was terminated inside updateProgressData for wallet 0, after
\* waitForLock created the lock file and before releaseLock: the lock file
\* is there, and the record is as the unit found it (died before its
\* write), truncated (died inside fs.writeFile) or already rewritten.  Unit
\* 1 starts its operations afterwards.
InitStaleLock ==
  /\ PoolUnused
  /\ ServiceUnused
  /\ \E o \in {x \in StoreOps(TicksPerDay) : Mutation(x) /\ x.wallet = 0} :
       /\ op = [p \in Procs |-> IF p = 2 THEN o ELSE NoOp]
       /\ \E before \in {getDefaultProgressData(0), ProgressMade} :
            file \in [Wallets ->
                        {Data(before), Empty,
                         Data(validateProgressData(updateFn(o, before),
                                                   TicksPerDay))}]
  /\ lock = [w \in Wallets |-> w = 0]
  /\ now = TicksPerDay
  /\ pc = [p \in Procs |-> IF p = 2 THEN "crashed" ELSE "idle"]
  /\ ctx = [p \in Procs |-> << >>]
  /\ cur = [p \in Procs |-> NoData]
  /\ err = [p \in Procs |-> FALSE]
  /\ held = [p \in Procs |-> IF p = 2 THEN 1 ELSE 0]
  /\ result = [p \in Procs |-> IF p = 2 THEN "crashed" ELSE "none"]
  /\ calls = 0
  /\ initFile = file
  /\ clean = [w \in Wallets |-> w # 0]
  /\ okIncrements = [w \in Wallets |-> [c \in DailyChains |-> 0]]
  /\ sawBad = [p \in Procs |-> FALSE]

NextStaleLock ==
  \/ \E p \in Procs : \E o \in StoreOps(now) : Call(p, o) /\ UNCHANGED notStore
  \/ \E p \in Procs : WaitForLockAccess(p) /\ UNCHANGED notStore
  \/ \E p \in Procs : WaitForLockCreate(p) /\ UNCHANGED notStore
  \/ \E p \in Procs : WaitForLockRetry(p) /\ UNCHANGED notStore
  \/ \E p \in Procs : WaitForLockTimeout(p) /\ UNCHANGED notStore
  \/ \E p \in Procs : ReadFile(p) /\ UNCHANGED notStore
  \/ \E p \in Procs : WriteFileOpen(p) /\ UNCHANGED notStore
  \/ \E p \in Procs : WriteFileData(p) /\ UNCHANGED notStore
  \/ \E p \in Procs : ReleaseLock(p) /\ UNCHANGED notStore

SpecStaleLock == InitStaleLock /\ [][NextStaleLock]_vars

DiedHolding(w) ==
  \E q \in Procs : pc[q] = "crashed" /\ held[q] > 0 /\ op[q].wallet = w

\* C34: a lock left by a unit that terminated abnormally does not stay held:
\* an updateProgressData for the same wallet that starts afterwards acquires
\* the lock and succeeds (it does not end in an error).
UpdateAfterCrashSucceeds ==
  \A p \in Procs :
    ( /\ pc[p] = "idle"
      /\ Mutation(op[p])
      /\ result[p] # "none"
      /\ DiedHolding(op[p].wallet) )
    => result[p] = "ok"

\* ---------------------------------------------------------------------
\* The chunk loops with any integer limit (SpecAnyLimit)
\* ---------------------------------------------------------------------

\* runBatch(tasks, maxConcurrent) and runForAll(privateKeys, maxThreads)
\* called with any integer limit, 0 and -1 included.
InitAnyLimit ==
  /\ StoreUnused
  /\ ServiceUnused
  /\ mode \in {"runBatch", "dailyAll"}
  /\ \E n \in 0..MaxTasks : tasks = Tasks(n, FALSE)
  /\ maxConcurrent \in (0 - 1)..MaxTasks
  /\ bpc = "loop"
  /\ processedCount = 0
  /\ results = << >>
  /\ promise = [t \in TaskIds |-> NoPromise]
  /\ wstate = [t \in TaskIds |-> "none"]
  /\ activeWorkers = {}
  /\ outcome = [t \in TaskIds |-> "none"]
  /\ settled = << >>
  /\ questCompleted = FALSE

\* The loop is followed until processedCount has gone MaxIdleChunks below 0.
Followed == processedCount > 0 - MaxIdleChunks

notPool == <<storeVars, serviceVars>>

NextAnyLimit ==
  \/ Followed /\ RunBatchLaunch /\ UNCHANGED notPool
  \/ RunBatchCollect /\ UNCHANGED notPool
  \/ RunBatchCooldown /\ UNCHANGED notPool
  \/ RunBatchReturn /\ UNCHANGED notPool
  \/ \E t \in TaskIds : \E ok \in BOOLEAN :
       WorkerMessage(t, ok) /\ UNCHANGED notPool
  \/ \E t \in TaskIds : WorkerError(t) /\ UNCHANGED notPool
  \/ \E t \in TaskIds : \E code \in {0, 1} :
       WorkerExit(t, code) /\ UNCHANGED notPool
  \/ Followed /\ RunForAllLaunch /\ UNCHANGED notPool
  \/ \E t \in TaskIds : \E plan \in SUBSET DailyChains :
       WalletPlanned(t, plan) /\ UNCHANGED notPool
  \/ \E t \in TaskIds : \E c \in DailyChains :
       \E next \in {{}, DailyChains \ {c}} :
         WalletWorkerEnds(t, c, next) /\ UNCHANGED notPool
  \/ \E t \in TaskIds : WalletPlanThrows(t) /\ UNCHANGED notPool
  \/ \E t \in TaskIds : WalletRunReturns(t) /\ UNCHANGED notPool
  \/ RunForAllCollect /\ UNCHANGED notPool
  \/ RunForAllReturn /\ UNCHANGED notPool

SpecAnyLimit == InitAnyLimit /\ [][NextAnyLimit]_vars

\* Promise.all of a chunk has resolved and the loop goes on.
ChunkCollectedStep ==
  bpc = "await" /\ bpc' \in {"sleep", "loop"}

ChunkAdvancesStep ==
  ChunkCollectedStep => processedCount' > processedCount

\* C35: runBatch and the wallet loop of runForAll terminate for every finite
\* task list and every integer limit: each chunk whose workers all produced
\* an outcome moves processedCount towards tasks.length, so the loop cannot
\* go round for ever.
EveryChunkAdvances == [][ChunkAdvancesStep]_vars

\* ---------------------------------------------------------------------
\* One wallet's tasks, run one after another (SpecWorkerRun)
\* ---------------------------------------------------------------------
\* TransferQuestService.run and executeCrossChainQuest await runWorker task
\* by task; a Daily run with one due chain has one task.  The worker is unit
\* 1 of the store, the main thread unit 2.  No other unit writes the record.

createTransferTask(source, dest, walletIndex, data) ==
  [workerPath |-> "transferWorker.js", walletIndex |-> walletIndex,
   sourceChain |-> source, destinationChain |-> dest,
   receiverAddress |-> data.addresses[dest],
   updateProgress |-> TRUE, isDaily |-> FALSE]

createCrossChainTask(source, dest, walletIndex, data) ==
  [workerPath |-> "transferWorker.js", walletIndex |-> walletIndex,
   sourceChain |-> source, destinationChain |-> dest,
   receiverAddress |-> data.addresses[dest],
   updateProgress |-> FALSE, isCrossChain |-> TRUE]

TransferOp(w, chain) ==
  [kind |-> "updateTransferCount", wallet |-> w, chain |-> chain,
   quest |-> NoQuest, date |-> NoDate]

QuestOp(w, questName) ==
  [kind |-> "updateCrossChainQuest", wallet |-> w, chain |-> NoChain,
   quest |-> questName, date |-> NoDate]

\* workerData.<flag> as a condition: a flag the task does not carry is
\* undefined.
IsSet(workerData, flag) == flag \in DOMAIN workerData /\ workerData[flag]

\* A worker that looks at isDaily only.
workerWriteIgnoringKind(workerData, today) ==
  IF IsSet(workerData, "isDaily")
  THEN DailyOp(workerData.walletIndex, workerData.destinationChain, today)
  ELSE TransferOp(workerData.walletIndex, workerData.destinationChain)

\* transferWorker after a successful transfer: the store operation it calls
\* (NoOp: none).
workerWrite(workerData, today) ==
  IF ~IsSet(workerData, "updateProgress") THEN NoOp
  ELSE IF IsSet(workerData, "isDaily")
  THEN DailyOp(workerData.walletIndex, workerData.destinationChain, today)
  ELSE IF IsSet(workerData, "isCrossChain") THEN NoOp
  ELSE TransferOp(workerData.walletIndex, workerData.destinationChain)

\* A worker that posts success whatever became of its update.
reportsSuccessAlways(how) == TRUE

\* transferWorker: the update returned -> postMessage({success: true});
\* it threw -> the catch block posts {success: false}.
reportsSuccess(how) == how = "ok"

\* The steps of a quest: path[i] -> path[i + 1].
QuestSteps(q, data) ==
  [i \in 1..(Len(QuestPath[q]) - 1) |->
     createCrossChainTask(QuestPath[q][i], QuestPath[q][i + 1], 0, data)]

\* The tasks of a Transfer run: a transfers to UNION, then b to BABYLON.
TransferTasks(a, b, data) ==
  [i \in 1..(a + b) |->
     IF i <= a THEN createTransferTask("STARGAZE", "UNION", 0, data)
     ELSE createTransferTask("UNION", "BABYLON", 0, data)]

AllAddresses(data) ==
  [data EXCEPT !.addresses = [c \in Chains |-> "addr"]]

\* The records a run starts from: every address derived; no progress yet, or
\* some.
RunRecords ==
  {AllAddresses(getDefaultProgressData(0)),
   AllAddresses(updateTransferCount(
     updateDailyInteraction(getDefaultProgressData(0), "UNION", 0),
     "UNION", 1))}

CurrentTask == runTasks[runIndex]

\* for (const task of tasks): await workerManager.runWorker(...); the worker
\* starts its transfer.
WorkerStarts ==
  /\ rpc = "loop"
  /\ runIndex <= Len(runTasks)
  /\ rpc' = "transfer"
  /\ runBefore' = file[0]
  /\ UNCHANGED <<runKind, runTasks, runIndex, runResults, runQuest>>
  /\ UNCHANGED storeVars

\* transfer.transfer returns: not successful (or it throws) -> failure is
\* posted; successful -> the worker makes its progress update, if it has
\* one, and else posts success.
TransferEnds(ok) ==
  /\ rpc = "transfer"
  /\ LET o == workerWrite(CurrentTask, Day(now)) IN
       IF ok /\ o # NoOp
       THEN /\ Enter(1, o)
            /\ rpc' = "update"
            /\ UNCHANGED calls
       ELSE /\ rpc' = IF ok THEN "postSuccess" ELSE "postFailure"
            /\ UNCHANGED storeVars
  /\ UNCHANGED <<runKind, runTasks, runIndex, runResults, runBefore, runQuest>>

\* The worker's update has returned or thrown.
UpdateReturns ==
  /\ rpc = "update"
  /\ pc[1] = "idle"
  /\ rpc' = IF reportsSuccess(result[1]) THEN "postSuccess" ELSE "postFailure"
  /\ UNCHANGED <<runKind, runTasks, runIndex, runResults, runBefore, runQuest>>
  /\ UNCHANGED storeVars

\* The message reaches the main thread, runWorker resolves and the loop
\* takes result.success.
MainReceives ==
  /\ rpc \in {"postSuccess", "postFailure"}
  /\ runResults' = Append(runResults, rpc = "postSuccess")
  /\ runIndex' = runIndex + 1
  /\ rpc' = "loop"
  /\ UNCHANGED <<runKind, runTasks, runBefore, runQuest>>
  /\ UNCHANGED storeVars

AllStepsSucceeded == \A i \in 1..Len(runResults) : runResults[i]

\* The loop is over.  executeCrossChainQuest: if (allSuccess) await
\* updateCrossChainQuest(questName, true); the other runs log and return.
RunLoopEnds ==
  /\ rpc = "loop"
  /\ runIndex > Len(runTasks)
  /\ IF runKind = "crossChain" /\ AllStepsSucceeded
     THEN /\ Enter(2, QuestOp(0, runQuest))
          /\ rpc' = "final"
          /\ UNCHANGED calls
     ELSE /\ rpc' = "done"
          /\ UNCHANGED storeVars
  /\ UNCHANGED <<runKind, runTasks, runIndex, runResults, runBefore, runQuest>>

\* updateCrossChainQuest has returned, or thrown into the catch block.
FinalUpdateReturns ==
  /\ rpc = "final"
  /\ pc[2] = "idle"
  /\ rpc' = "done"
  /\ UNCHANGED <<runKind, runTasks, runIndex, runResults, runBefore, runQuest>>
  /\ UNCHANGED storeVars

\* The lock file of wallet 0 may have been left behind by a unit that died
\* (staleLock): then every update of the run times out.
InitWorkerRun ==
  /\ PoolUnused
  /\ PlanUnused
  /\ FaucetUnused
  /\ DailyUnused
  /\ QuestUnused
  /\ SourceUnused
  /\ RecoverUnused
  /\ now = TicksPerDay
  /\ \E start \in RunRecords :
       /\ file = [w \in Wallets |-> Data(start)]
       /\ runKind \in {"daily", "transfer", "crossChain"}
       /\ \/ /\ runKind = "daily"
             /\ runQuest = NoQuest
             /\ \E c \in DailyChains :
                  runTasks = <<createDailyInteractionTask(c, 0, start, Day(now))>>
          \/ /\ runKind = "transfer"
             /\ runQuest = NoQuest
             /\ \E a \in 0..MaxTasks : \E b \in 0..MaxTasks :
                  /\ a + b \in 1..MaxTasks
                  /\ runTasks = TransferTasks(a, b, start)
          \/ /\ runKind = "crossChain"
             /\ runQuest \in Quests
             /\ runTasks = QuestSteps(runQuest, start)
  /\ \E staleLock \in BOOLEAN : lock = [w \in Wallets |-> w = 0 /\ staleLock]
  /\ pc = [p \in Procs |-> "idle"]
  /\ ctx = [p \in Procs |-> << >>]
  /\ op = [p \in Procs |-> NoOp]
  /\ cur = [p \in Procs |-> NoData]
  /\ err = [p \in Procs |-> FALSE]
  /\ held = [p \in Procs |-> 0]
  /\ result = [p \in Procs |-> "none"]
  /\ calls = 0
  /\ initFile = file
  /\ clean = [w \in Wallets |-> TRUE]
  /\ okIncrements = [w \in Wallets |-> [c \in DailyChains |-> 0]]
  /\ sawBad = [p \in Procs |-> FALSE]
  /\ rpc = "loop"
  /\ runIndex = 1
  /\ runResults = << >>
  /\ runBefore = file[0]

notRun == <<poolVars, planVars, faucetVars, dailyVars, questVars, sourceVars,
            recoverVars>>

NextWorkerRun ==
  \/ WorkerStarts /\ UNCHANGED notRun
  \/ \E ok \in BOOLEAN : TransferEnds(ok) /\ UNCHANGED notRun
  \/ UpdateReturns /\ UNCHANGED notRun
  \/ MainReceives /\ UNCHANGED notRun
  \/ RunLoopEnds /\ UNCHANGED notRun
  \/ FinalUpdateReturns /\ UNCHANGED notRun
  \/ \E p \in Procs : WaitForLockAccess(p) /\ UNCHANGED <<notRun, runVars>>
  \/ \E p \in Procs : WaitForLockCreate(p) /\ UNCHANGED <<notRun, runVars>>
  \/ \E p \in Procs : WaitForLockRetry(p) /\ UNCHANGED <<notRun, runVars>>
  \/ \E p \in Procs : WaitForLockTimeout(p) /\ UNCHANGED <<notRun, runVars>>
  \/ \E p \in Procs : ReadFile(p) /\ UNCHANGED <<notRun, runVars>>
  \/ \E p \in Procs : WriteFileOpen(p) /\ UNCHANGED <<notRun, runVars>>
  \/ \E p \in Procs : WriteFileData(p) /\ UNCHANGED <<notRun, runVars>>
  \/ \E p \in Procs : ReleaseLock(p) /\ UNCHANGED <<notRun, runVars>>

SpecWorkerRun == InitWorkerRun /\ [][NextWorkerRun]_vars

\* The tasks to chain c that were reported as a success.
SuccessesTo(c) ==
  Cardinality({i \in 1..Len(runResults) :
                 runResults[i] /\ runTasks[i].destinationChain = c})

StoredCount(f, c) == f.data.transfers[c].count

\* The task at work is one to chain c.
AtWorkOn(c) ==
  rpc \in {"transfer", "update", "postSuccess", "postFailure"}
    /\ CurrentTask.destinationChain = c

Untouched(before, after, section) == after[section] = before[section]

OthersUntouched(before, after, section, key) ==
  /\ DOMAIN after[section] = DOMAIN before[section]
  /\ \A k \in DOMAIN before[section] :
       k # key => after[section][k] = before[section][k]

\* What the task at work may have changed in the record, by its kind.
TaskFrame(before, after) ==
  LET chain == CurrentTask.destinationChain IN
  CASE runKind = "daily" ->
         /\ Untouched(before, after, "addresses")
         /\ Untouched(before, after, "transfers")
         /\ Untouched(before, after, "crossChain")
         /\ OthersUntouched(before, after, "dailyInteractions", chain)
         /\ rpc = "postSuccess" =>
              after.dailyInteractions[chain] =
                [lastInteraction |-> Day(now),
                 count |-> before.dailyInteractions[chain].count + 1]
    [] runKind = "transfer" ->
         /\ Untouched(before, after, "addresses")
         /\ Untouched(before, after, "dailyInteractions")
         /\ Untouched(before, after, "crossChain")
         /\ OthersUntouched(before, after, "transfers", chain)
         /\ rpc = "postSuccess" =>
              after.transfers[chain] =
                [count |-> before.transfers[chain].count + 1]
    [] OTHER -> after = before

\* What a whole cross-chain attempt may have changed.
AttemptFrame(before, after) ==
  /\ Untouched(before, after, "addresses")
  /\ Untouched(before, after, "dailyInteractions")
  /\ Untouched(before, after, "transfers")
  /\ OthersUntouched(before, after, "crossChain", runQuest)
  /\ after.crossChain[runQuest].completed # before.crossChain[runQuest].completed
       => AllStepsSucceeded /\ after.crossChain[runQuest].completed

\* C39: what a worker writes depends on its task kind only: a daily task
\* writes dailyInteractions of its chain, a transfer task transfers of its
\* destination, a cross-chain step nothing; a cross-chain attempt changes
\* nothing but, after full success, crossChain[quest].completed.
WorkerWritesByKind ==
  /\ (rpc \in {"transfer", "update", "postSuccess", "postFailure"}
        /\ Parses(file[0]))
       => TaskFrame(runBefore.data, file[0].data)
  /\ (rpc \in {"transfer", "update", "postSuccess", "postFailure"}
        /\ runKind = "crossChain")
       => file = initFile
  /\ (runKind = "crossChain" /\ Parses(file[0]))
       => AttemptFrame(initFile[0].data, file[0].data)

\* A quest of more than one step was attempted, every step succeeded, and
\* the only difference to the record is the quest's completed flag.
WorkerWritesByKindWitness ==
  /\ runKind = "crossChain"
  /\ rpc = "done"
  /\ Len(runTasks) >= 2
  /\ AllStepsSucceeded
  /\ file[0].data.crossChain[runQuest].completed
  /\ file[0].data.transfers = initFile[0].data.transfers

\* ---------------------------------------------------------------------
\* The lock on the failure paths of the store (SpecLockRelease)
\* ---------------------------------------------------------------------

\* The error leaves the try block of an updateProgressData that holds the
\* lock: catch logs and rethrows, finally is next.
ToFinally(p) ==
  /\ pc' = [pc EXCEPT ![p] = "release"]
  /\ ctx' = [ctx EXCEPT ![p] = <<"updateProgressData">>]
  /\ err' = [err EXCEPT ![p] = TRUE]
  /\ UNCHANGED <<result, clean, okIncrements, cur>>

\* readProgressData: ensureDataDirExists or fs.readFile fails with an error
\* that is neither ENOENT nor a SyntaxError (EACCES, EIO, ...): rethrown.
ReadFails(p) ==
  /\ pc[p] = "readFile"
  /\ IF Pop(ctx[p]) = << >>
     THEN Finish(p, "error", NoData)
     ELSE ToFinally(p)
  /\ UNCHANGED <<file, lock, now, op, held, calls, initFile, sawBad>>

\* updateProgressData: updateFn(currentData) throws.
UpdateFnThrows(p) ==
  /\ pc[p] = "open"
  /\ Top(p) = "updateProgressData"
  /\ ToFinally(p)
  /\ UNCHANGED <<file, lock, now, op, held, calls, initFile, sawBad>>

\* fs.writeFile(filePath, ...) rejects, before the file was opened or after
\* it was truncated.  In updateProgressData the finally block is next; in
\* saveProgressData its own catch and finally.
WriteFails(p) ==
  /\ pc[p] \in {"open", "write"}
  /\ IF Top(p) = "updateProgressData"
     THEN ToFinally(p)
     ELSE /\ pc' = [pc EXCEPT ![p] = "unwind"]
          /\ err' = [err EXCEPT ![p] = TRUE]
          /\ UNCHANGED <<ctx, result, clean, okIncrements, cur>>
  /\ UNCHANGED <<file, lock, now, op, held, calls, initFile, sawBad>>

\* saveProgressData after a failed write: finally { releaseLock() }, and the
\* error goes on through the catch block of readProgressData that called it,
\* into the finally of an enclosing updateProgressData or to the caller.
ReleaseLockRethrow(p) ==
  /\ pc[p] = "unwind"
  /\ lock' = [lock EXCEPT ![op[p].wallet] = FALSE]
  /\ held' = [held EXCEPT ![p] = @ - 1]
  /\ IF Len(ctx[p]) = 3
     THEN ToFinally(p)
     ELSE Finish(p, "error", NoData)
  /\ UNCHANGED <<file, now, op, calls, initFile, sawBad>>

\* One mutator and the read, on a record that is there or missing.
LockOps(t) ==
  {o \in StoreOps(t) : o.kind \in {"updateTransferCount", "readProgressData"}}

InitLockRelease ==
  /\ InitStore
  /\ file \in [Wallets -> {Missing, Data(getDefaultProgressData(0))}]

NextLockRelease ==
  \/ \E p \in Procs : \E o \in LockOps(now) : Call(p, o) /\ UNCHANGED notStore
  \/ \E p \in Procs : WaitForLockAccess(p) /\ UNCHANGED notStore
  \/ \E p \in Procs : WaitForLockCreate(p) /\ UNCHANGED notStore
  \/ \E p \in Procs : WaitForLockRetry(p) /\ UNCHANGED notStore
  \/ \E p \in Procs : WaitForLockTimeout(p) /\ UNCHANGED notStore
  \/ \E p \in Procs : ReadFile(p) /\ UNCHANGED notStore
  \/ \E p \in Procs : WriteFileOpen(p) /\ UNCHANGED notStore
  \/ \E p \in Procs : WriteFileData(p) /\ UNCHANGED notStore
  \/ \E p \in Procs : ReleaseLock(p) /\ UNCHANGED notStore
  \/ \E p \in Procs : ReadFails(p) /\ UNCHANGED notStore
  \/ \E p \in Procs : UpdateFnThrows(p) /\ UNCHANGED notStore
  \/ \E p \in Procs : WriteFails(p) /\ UNCHANGED notStore
  \/ \E p \in Procs : ReleaseLockRethrow(p) /\ UNCHANGED notStore

SpecLockRelease == InitLockRelease /\ [][NextLockRelease]_vars

\* The units inside a call for wallet w that have created its lock file and
\* not yet run their releaseLock.
Holding(w) ==
  {p \in Procs : pc[p] # "idle" /\ op[p].wallet = w /\ held[p] > 0}

\* A step that removes the lock file of w is the releaseLock of a unit that
\* had created it.
RemovedByHolder(w) ==
  (lock[w] /\ ~lock'[w]) =>
    \E p \in Holding(w) : held'[p] = held[p] - 1

LockReleaseStep ==
  /\ \A p \in Procs : pc'[p] = "idle" => held'[p] = 0
  /\ \A w \in Wallets : lock'[w] => Holding(w)' # {}
  /\ \A w \in Wallets : RemovedByHolder(w)

\* C37: every updateProgressData or saveProgressData call that acquired the
\* lock has released it when it returns, on success and when updateFn, the
\* read or the write fails; a call that did not acquire it never removes it;
\* so the lock file never outlives the calls that hold it.
LockReleasedOnEveryPath == [][LockReleaseStep]_vars

\* A call whose write failed after it had acquired the lock has returned
\* with an error, and the lock file is gone.
LockReleasedOnEveryPathWitness ==
  \E p \in Procs :
    /\ pc[p] = "idle"
    /\ result[p] = "error"
    /\ Mutation(op[p])
    /\ file[op[p].wallet] = Empty
    /\ ~lock[op[p].wallet]
    /\ \A q \in Procs : pc[q] = "idle"

\* ---------------------------------------------------------------------
\* What a mutator changes in the record (SpecMutators)
\* ---------------------------------------------------------------------

\* The four mutators called for one wallet by two units, on every kind of
\* record; no unit dies.
MutatorOps(t) == {o \in StoreOps(t) : Mutation(o) /\ o.wallet = 0}

NextMutators ==
  \/ \E p \in Procs : \E o \in MutatorOps(now) : Call(p, o) /\ UNCHANGED notStore
  \/ \E p \in Procs : WaitForLockAccess(p) /\ UNCHANGED notStore
  \/ \E p \in Procs : WaitForLockCreate(p) /\ UNCHANGED notStore
  \/ \E p \in Procs : WaitForLockRetry(p) /\ UNCHANGED notStore
  \/ \E p \in Procs : WaitForLockTimeout(p) /\ UNCHANGED notStore
  \/ \E p \in Procs : ReadFile(p) /\ UNCHANGED notStore
  \/ \E p \in Procs : WriteFileOpen(p) /\ UNCHANGED notStore
  \/ \E p \in Procs : WriteFileData(p) /\ UNCHANGED notStore
  \/ \E p \in Procs : ReleaseLock(p) /\ UNCHANGED notStore

SpecMutators == InitStore /\ [][NextMutators]_vars

\* data.<section>[key]?.count || 0
CountOr0(data, section, key) ==
  IF key \in DOMAIN data[section] THEN data[section][key].count ELSE 0

\* The record `after` is `before` with the target entry of mutator o (with
\* increment k for updateTransferCount) set and nothing else changed but
\* lastUpdated.
MutatorFrame(o, k, before, after) ==
  /\ after.version = before.version
  /\ CASE o.kind = "updateAddress" ->
            /\ OthersUntouched(before, after, "addresses", o.chain)
            /\ after.addresses[o.chain] = "addr"
            /\ Untouched(before, after, "dailyInteractions")
            /\ Untouched(before, after, "transfers")
            /\ Untouched(before, after, "crossChain")
       [] o.kind = "updateDailyInteraction" ->
            /\ OthersUntouched(before, after, "dailyInteractions", o.chain)
            /\ after.dailyInteractions[o.chain] =
                 [lastInteraction |-> o.date,
                  count |-> CountOr0(before, "dailyInteractions", o.chain) + 1]
            /\ Untouched(before, after, "addresses")
            /\ Untouched(before, after, "transfers")
            /\ Untouched(before, after, "crossChain")
       [] o.kind = "updateTransferCount" ->
            /\ \A c \in DOMAIN before.transfers :
                 c # o.chain => /\ c \in DOMAIN after.transfers
                                /\ after.transfers[c] = before.transfers[c]
            /\ after.transfers[o.chain].count =
                 CountOr0(before, "transfers", o.chain) + k
            /\ Untouched(before, after, "addresses")
            /\ Untouched(before, after, "dailyInteractions")
            /\ Untouched(before, after, "crossChain")
       [] o.kind = "updateCrossChainQuest" ->
            /\ OthersUntouched(before, after, "crossChain", o.quest)
            /\ after.crossChain[o.quest].completed
            /\ Untouched(before, after, "addresses")
            /\ Untouched(before, after, "dailyInteractions")
            /\ Untouched(before, after, "transfers")
       [] OTHER -> FALSE

\* Unit p's updateProgressData writes its record.
MutatorWrites(p) ==
  pc[p] = "write" /\ pc'[p] = "release" /\ Top(p) = "updateProgressData"

MutatorFrameStep ==
  \A p \in Procs :
    MutatorWrites(p) =>
      /\ Parses(file'[op[p].wallet])
      /\ MutatorFrame(op[p], 1, cur[p], file'[op[p].wallet].data)
      /\ \A k \in 1..MaxTasks :
           MutatorFrame(TransferOp(op[p].wallet, "BABYLON"), k, cur[p],
                        validateProgressData(
                          updateTransferCount(cur[p], "BABYLON", k), now))

\* C38: a named mutator changes only its target entry and lastUpdated:
\* updateTransferCount adds k to transfers[chain].count,
\* updateDailyInteraction sets lastInteraction and adds 1, updateAddress sets
\* addresses[chain], updateCrossChainQuest sets crossChain[q].completed; every
\* other entry is written back as it was read.
MutatorChangesOnlyItsTarget == [][MutatorFrameStep]_vars

\* updateAddress has returned for a record that held a transfer count, and
\* the record holds both.
MutatorChangesOnlyItsTargetWitness ==
  \E p \in Procs :
    /\ pc[p] = "idle"
    /\ result[p] = "ok"
    /\ op[p].kind = "updateAddress"
    /\ Parses(file[op[p].wallet])
    /\ file[op[p].wallet].data.addresses["UNION"] = "addr"
    /\ file[op[p].wallet].data.addresses["BABYLON"] = Null
    /\ file[op[p].wallet].data.transfers["UNION"].count = 1

====
